---- MODULE Spec2Model ----
(***************************************************************************)
(* A model of the resolution core of xdi: the Singleton thunk of           *)
(* xdi/_dependency.py, the Scope resolver of xdi/scopes.py and the PRO     *)
(* predicate / marker algebra of xdi/markers.py.                           *)
(*                                                                         *)
(* Three specifications share the module:                                  *)
(*   SpecSingleton  threads calling one bound Singleton thunk              *)
(*   SpecScope      threads resolving keys on a chain of scopes            *)
(*   SpecMarkers    the predicate and marker algebra, applied to inputs    *)
(***************************************************************************)
EXTENDS Integers, Sequences, FiniteSets, TLC

(***************************************************************************)
(* Bounds.                                                                 *)
(***************************************************************************)
\* threads that run concurrently (thunk callers, resolver threads)
NThreads == 2
\* calls of the thunk each thread makes
MaxCalls == 2

\* operations (lookups) all resolver threads start, in total
MaxOps == 2

\* size of the predicate expressions built: leaves and operators together
MaxTokens == 5

Threads == 1..NThreads

(***************************************************************************)
(* The wiring the Scope resolver runs against: a child scope over           *)
(* container cA (whose PRO also holds cB) and its parent scope over cP.     *)
(***************************************************************************)
Scopes == {"sC", "sP"}
\* NullScope(), the falsy end of every scope chain (src/xdi/scopes.py:139)
NullScope == "s0"
Containers == {"cA", "cB", "cP"}
\* Python's None, as a container argument
NoneC == "None"
Locs == {"GLOBAL", "LOCAL"}

\* Scope.parent and Scope.container (src/xdi/scopes.py:32-33)
ScopeParent(s) == IF s = "sC" THEN "sP" ELSE NullScope
ScopeContainer(s) == IF s = "sC" THEN "cA" ELSE "cP"

\* Container.parent, Container.pro
ContainerParent(c) == IF c = "cB" THEN "cA" ELSE NoneC
Pro(c) == IF c = "cA" THEN <<"cA", "cB">> ELSE <<c>>

SeqToSet(q) == {q[i] : i \in 1..Len(q)}

\* Container.get_container(container): None stands for the container itself;
\* a container outside the PRO is not known
GetContainer(self, container) ==
    IF container = NoneC THEN self
    ELSE IF container \in SeqToSet(Pro(self)) THEN container
    ELSE NoneC

(* The keys, one per situation:                                            *)
(*   Kown    a Factory registered in cA                                    *)
(*   Kpar    a Factory registered in the parent scope's container cP only  *)
(*   Knone   registered nowhere                                            *)
(*   Knull   registered in cA, a Union none of whose members is provided   *)
(*   Kb      a Factory registered in cB only, a container of cA's PRO      *)
(*   Kalias  registered in cA, an Alias of Kb, which lives in cB           *)
Keys == {"Kown", "Kpar", "Knone", "Knull", "Kb", "Kalias"}

Prov(n, c, k, tg) == [name |-> n, container |-> c, kind |-> k, target |-> tg]

\* container.get_registry(loc).get_all(key): the candidate providers
Registry(c, loc, k) ==
    CASE loc = "GLOBAL" /\ c = "cA" /\ k = "Kown" -> <<Prov("fA", "cA", "factory", "")>>
      [] loc = "GLOBAL" /\ c = "cP" /\ k = "Kpar" -> <<Prov("fP", "cP", "factory", "")>>
      [] loc = "GLOBAL" /\ c = "cA" /\ k = "Knull" -> <<Prov("uA", "cA", "null", "")>>
      [] loc = "GLOBAL" /\ c = "cB" /\ k = "Kb" -> <<Prov("fB", "cB", "factory", "")>>
      [] loc = "GLOBAL" /\ c = "cA" /\ k = "Kalias" -> <<Prov("aA", "cA", "alias", "Kb")>>
      [] OTHER -> <<>>

\* key in container: the container provides the key
InContainer(c, k) == \E l \in Locs : Registry(c, l, k) # <<>>

\* the keys a run may look up
FocusSets == {{k} : k \in Keys}

(* A Dependency object: its identity fields (src/xdi/_dependency.py:50-63) *)
(* and oid, the object itself (two equal records may be two objects).       *)
Dep(a, s, c, n, cl) == [abstract |-> a, scope |-> s, container |-> c, oid |-> n, cls |-> cl]
\* Python's None, as a lookup result
NoDep == Dep("", "", "", 0, "None")
\* bool(x) of a lookup result: None and LookupErrorDependency are falsy
Truthy(d) == d.cls \notin {"None", "LookupErrorDependency"}
\* Dependency.__eq__ / __hash__: class and (abstract, scope, container)
DepEq(d, e) ==
    /\ d.cls = e.cls /\ d.abstract = e.abstract
    /\ d.scope = e.scope /\ d.container = e.container

\* xdi._common.Missing, the "no value yet" sentinel; objects are 1, 2, ...
Missing == 0

\* outcomes of a completed call of the thunk
NoResult == [kind |-> "none", obj |-> 0]
Raised == [kind |-> "raised", obj |-> 0]
Returned(v) == [kind |-> "value", obj |-> v]

VARIABLES
    \* ---- Singleton.bind closure (src/xdi/_dependency.py:253-271) ----
    thread_safe,   \* Factory.thread_safe of the bound Singleton
    value,         \* the closure cell `value`
    lock,          \* holder of `lock` (0: free, or no lock at all)
    tpc,           \* per thread: position inside factory()
    ttmp,          \* per thread: what func() returned, not yet stored
    texc,          \* per thread: an exception is propagating through finally
    tret,          \* per thread: outcome of its last completed call
    tseen,         \* per thread: the values returned before its call began
    ncalls,        \* per thread: calls started
    funcCalls,     \* invocations of the underlying factory func()
    valueWrites,   \* executions of the store `value = ...`
    returned,      \* every value a completed call returned
    raisedEver,    \* some invocation of func() raised
    \* ---- Scope (src/xdi/scopes.py) ----
    focus,         \* the keys this run looks up
    resolved,      \* Scope._resolved: the (scope, key, container, loc, Dependency) stored
    resolvedKeys,  \* the keys present in the defaultdict Scope._resolved
    depsNone,      \* Scope._dependencies: the keys stored with value None
    depsCanon,     \* Scope._dependencies: the Dependency objects stored under themselves
    nextOid,       \* objects created so far
    stack,         \* per thread: its call stack (frames, innermost last)
    rv,            \* per thread: what the callee that just returned gave back
    cur,           \* per thread: the operation in progress, and what it did so far
    done,          \* per thread: its last completed operation and the result
    opsStarted,    \* operations started so far
    gotDeps,       \* every (scope, key, Dependency) a completed scope[key] returned
    rdGot,         \* every (scope, key, container, loc, Dependency) a
                   \* _resolve_dependency call returned
    \* ---- predicates and markers (src/xdi/markers.py) ----
    pstack,        \* the predicates built so far, the latest last
    phase,         \* "build", then "applied", or "anded" and then "done"
    pi,            \* the PRO list pro_entries was applied to
    sameScope,     \* scope is src.scope, for that application
    out,           \* p.pro_entries(pi)
    out2,          \* p.pro_entries(p.pro_entries(pi))
    marker0,          \* the marker d
    marker,           \* d & p, then (d & p) & ~p
    rerr           \* the exception that evaluating the expression raised

\* marker construction (PureDep.__new__, Dep.__new__) and marker equality
VARIABLES
    impl,          \* which module's Dep is used: xdi/markers.py or xdi/__init__.py
    heap,          \* the objects alive, an object's identity is its index
    last           \* the latest constructor call and the object it returned

\* Dependency records under comparison (Dependency.__eq__, __hash__)
VARIABLES
    da,            \* the left operand
    db,            \* the right operand
    cmp            \* the outcome of da == db, da != db and of the two hashes

dvars == <<da, db, cmp>>

\* the context scope `sub`, its injectors and the tasks of the tests
VARIABLES
    injs,          \* the state of every injector constructed, by its number
    current,       \* the scope's current injector, 0 when the scope is inactive
    built,         \* injectors constructed since the scope was last set up
    mainpc,        \* the main coroutine: "main", "reset" or "gather"
    nops,          \* operations the main coroutine has started
    gathered,      \* the tasks were started
    gcur,          \* the current injector when the tasks were started
    tph,           \* each task's position
    tres,          \* each task's res[n]: (sub.is_active, sub.injector())
    dstack,        \* the disposal stack of the active injector
    pushed,        \* the resources pushed on it, oldest first
    released,      \* the resources released by reset, in release order
    pending,       \* the release failures collected so far by the reset
    reported,      \* the release failures the reset reported
    lastop         \* the latest operation, the injector's state before it and what it raised

lvars == <<injs, current, built, mainpc, nops, gathered, gcur, tph, tres,
           dstack, pushed, released, pending, reported, lastop>>

\* the promise-bootstrapped Injector of laza/di/injectors.py
VARIABLES
    zreg,          \* the autoload keys of the containers, in registration order
    zshadowed,     \* the keys whose resolved provider is not an autoload one
    zparent,       \* Injector.__parent, 0 for None
    zbooted,       \* Injector.__boot.done()
    zautoloads,    \* Injector.__autoloads
    zorder,        \* the order in which iterating __autoloads yields its keys
    zcurrent,      \* the injector of the context passed to create_context
    zinvoked,      \* the keys create_context bound and invoked, in order
    zctxs,         \* contexts created
    zcalls,        \* set_parent calls made
    zlast          \* the latest set_parent call and its outcome

zvars == <<zreg, zshadowed, zparent, zbooted, zautoloads, zorder, zcurrent,
           zinvoked, zctxs, zcalls, zlast>>

\* one thread calling Scope._resolve_dependency on the child scope, over every
\* wiring of the containers
VARIABLES
    wparent,       \* Container.parent of every container
    wpro,          \* the PRO of the parent scope's container
    wreg,          \* the providers registered, by container and locality
    rcall,         \* the arguments of the call: container, loc, only_self
    rmemo,         \* _resolved of both scopes
    rtrace,        \* what the latest call did: calls, hits, composes and stores
    rres,          \* what the latest call returned
    rfirst,        \* what the first call returned
    rcount,        \* calls completed
    roid           \* Dependency objects constructed

rvars == <<wparent, wpro, wreg, rcall, rmemo, rtrace, rres, rfirst, rcount, roid>>

\* one provider of a function, planned, bound to an injector and invoked
VARIABLES
    bsig,          \* the function's parameters: name, kind and trait
    bgiven,        \* the parameters given explicitly to the provider
    bcls,          \* the class of the Dependency: Factory, Singleton or Partial
    bparams,       \* Dependency.params, once planned
    bplans,        \* times the parameters were planned
    blookups,      \* injector[...] lookups made, per parameter
    bbound,        \* what bind(injector) returned
    bvalue,        \* the Singleton's value slot
    binvoked,      \* invocations of the bound callable
    bfunc,         \* calls of the function itself
    blast          \* the arguments of the latest call of the function

bvars == <<bsig, bgiven, bcls, bparams, bplans, blookups, bbound, bvalue, binvoked, bfunc, blast>>

\* one Dep marker or Union key resolved from an injector of a chain of two
VARIABLES
    pprov,         \* the keys each scope's own containers provide
    preq,          \* the key requested
    pfrom,         \* the scope of the injector it is requested from
    pres,          \* what the request resolved to
    pdone          \* whether the request was made

pvars == <<pprov, preq, pfrom, pres, pdone>>

\* one ProSlice constructed and applied to a PRO
VARIABLES
    qstart,        \* the arguments start, stop and step
    qstop,
    qstep,
    qit,           \* the PRO the predicate is applied to
    qvia,          \* how the instance was made: ProSlice(...) or ProPredicate.__new__
    qnew,          \* what the construction returned or raised
    qent,          \* what pro_entries returned or raised
    qpc            \* init, new, entries

qvars == <<qstart, qstop, qstep, qit, qvia, qnew, qent, qpc>>

\* Scope.injector and Scope.create_injector over a chain of three scopes
VARIABLES
    xheap,      \* the injectors made so far: <<[scope, parent]>>
    xlast       \* the latest call: scope, given parent, outcome
xvars == <<xheap, xlast>>

\* the ambient scope() context manager of djx.di
VARIABLES
    aheap,      \* the injectors made so far, the root injector first
    actx,       \* the value of the current-injector context variable
    aframes,    \* the scope() blocks entered and not yet left, innermost last
    alast,      \* the latest entry or exit
    aenters     \* the number of scope() blocks entered so far
avars == <<aheap, actx, aframes, alast, aenters>>

\* laza Injector.create_context over a chain of injectors
VARIABLES
    kparent,    \* the parent of each injector, NoParent for none
    kctxs,      \* the contexts made so far: <<[injector, parent]>>
    klog,       \* what the latest create_context call did, in order
    klast       \* the latest create_context call: injector, context passed, result
kvars == <<kparent, kctxs, klog, klast>>

svars == <<thread_safe, value, lock, tpc, ttmp, texc, tret, tseen, ncalls,
           funcCalls, valueWrites, returned, raisedEver>>

scvars == <<focus, resolved, resolvedKeys, depsNone, depsCanon, nextOid, stack,
            rv, cur, done, opsStarted, gotDeps, rdGot>>

mvars == <<pstack, phase, pi, sameScope, out, out2, marker0, marker, rerr>>

ivars == <<impl, heap, last>>

vars == <<svars, scvars, mvars, ivars, dvars, lvars, zvars, rvars, bvars, pvars, qvars, xvars, avars, kvars>>

(***************************************************************************)
(* Singleton.bind: the state right after bind() returned the closure.      *)
(***************************************************************************)
SingletonBind ==
    /\ thread_safe \in BOOLEAN
    /\ value = Missing
    /\ lock = 0
    /\ tpc = [t \in Threads |-> "idle"]
    /\ ttmp = [t \in Threads |-> 0]
    /\ texc = [t \in Threads |-> FALSE]
    /\ tret = [t \in Threads |-> NoResult]
    /\ tseen = [t \in Threads |-> {}]
    /\ ncalls = [t \in Threads |-> 0]
    /\ funcCalls = 0
    /\ valueWrites = 0
    /\ returned = {}
    /\ raisedEver = FALSE

\* a thread enters factory()
ThunkCall(t) ==
    /\ tpc[t] = "idle"
    /\ ncalls[t] < MaxCalls
    /\ tpc' = [tpc EXCEPT ![t] = "check1"]
    /\ ncalls' = [ncalls EXCEPT ![t] = @ + 1]
    /\ tseen' = [tseen EXCEPT ![t] = returned]
    /\ tret' = [tret EXCEPT ![t] = NoResult]
    /\ UNCHANGED <<thread_safe, value, lock, ttmp, texc, funcCalls,
                   valueWrites, returned, raisedEver>>

\* if not value is Missing: return value
ThunkCheck1(t) ==
    /\ tpc[t] = "check1"
    /\ IF value # Missing
         THEN /\ tpc' = [tpc EXCEPT ![t] = "idle"]
              /\ tret' = [tret EXCEPT ![t] = Returned(value)]
              /\ returned' = returned \cup {value}
         ELSE /\ tpc' = [tpc EXCEPT ![t] = "acquire"]
              /\ UNCHANGED <<tret, returned>>
    /\ UNCHANGED <<thread_safe, value, lock, ttmp, texc, tseen, ncalls,
                   funcCalls, valueWrites, raisedEver>>

\* a variant that never takes the lock
ThunkAcquireUnlocked(t) ==
    /\ tpc[t] = "acquire"
    /\ tpc' = [tpc EXCEPT ![t] = "check2"]
    /\ UNCHANGED <<thread_safe, value, lock, ttmp, texc, tret, tseen, ncalls,
                   funcCalls, valueWrites, returned, raisedEver>>

\* lock and lock.acquire(blocking=True)
ThunkAcquire(t) ==
    /\ tpc[t] = "acquire"
    /\ IF thread_safe
         THEN /\ lock = 0
              /\ lock' = t
         ELSE UNCHANGED lock
    /\ tpc' = [tpc EXCEPT ![t] = "check2"]
    /\ UNCHANGED <<thread_safe, value, ttmp, texc, tret, tseen, ncalls,
                   funcCalls, valueWrites, returned, raisedEver>>

\* a variant without the second test of the double-checked lock
ThunkCheck2NoRecheck(t) ==
    /\ tpc[t] = "check2"
    /\ tpc' = [tpc EXCEPT ![t] = "call"]
    /\ UNCHANGED <<thread_safe, value, lock, ttmp, texc, tret, tseen, ncalls,
                   funcCalls, valueWrites, returned, raisedEver>>

\* if value is Missing: (under the lock, when there is one)
ThunkCheck2(t) ==
    /\ tpc[t] = "check2"
    /\ tpc' = [tpc EXCEPT ![t] = IF value = Missing THEN "call" ELSE "release"]
    /\ UNCHANGED <<thread_safe, value, lock, ttmp, texc, tret, tseen, ncalls,
                   funcCalls, valueWrites, returned, raisedEver>>

\* func(): the underlying factory runs; it returns a new object or raises
ThunkInvoke(t) ==
    /\ tpc[t] = "call"
    /\ funcCalls' = funcCalls + 1
    /\ \/ /\ ttmp' = [ttmp EXCEPT ![t] = funcCalls + 1]
          /\ tpc' = [tpc EXCEPT ![t] = "assign"]
          /\ UNCHANGED <<texc, raisedEver>>
       \/ /\ texc' = [texc EXCEPT ![t] = TRUE]
          /\ raisedEver' = TRUE
          /\ tpc' = [tpc EXCEPT ![t] = "release"]
          /\ UNCHANGED ttmp
    /\ UNCHANGED <<thread_safe, value, lock, tret, tseen, ncalls,
                   valueWrites, returned>>

\* value = <what func() returned>
ThunkAssign(t) ==
    /\ tpc[t] = "assign"
    /\ value' = ttmp[t]
    /\ valueWrites' = valueWrites + 1
    /\ ttmp' = [ttmp EXCEPT ![t] = 0]
    /\ tpc' = [tpc EXCEPT ![t] = "release"]
    /\ UNCHANGED <<thread_safe, lock, texc, tret, tseen, ncalls, funcCalls,
                   returned, raisedEver>>

\* a release that a pending exception skips
ThunkReleaseNoFinally(t) ==
    /\ tpc[t] = "release"
    /\ lock' = IF thread_safe /\ ~texc[t] THEN 0 ELSE lock
    /\ IF texc[t]
         THEN /\ tret' = [tret EXCEPT ![t] = Raised]
              /\ texc' = [texc EXCEPT ![t] = FALSE]
              /\ tpc' = [tpc EXCEPT ![t] = "idle"]
         ELSE /\ tpc' = [tpc EXCEPT ![t] = "ret"]
              /\ UNCHANGED <<tret, texc>>
    /\ UNCHANGED <<thread_safe, value, ttmp, tseen, ncalls, funcCalls,
                   valueWrites, returned, raisedEver>>

\* finally: lock and lock.release(); a pending exception then leaves factory()
ThunkRelease(t) ==
    /\ tpc[t] = "release"
    /\ lock' = IF thread_safe THEN 0 ELSE lock
    /\ IF texc[t]
         THEN /\ tret' = [tret EXCEPT ![t] = Raised]
              /\ texc' = [texc EXCEPT ![t] = FALSE]
              /\ tpc' = [tpc EXCEPT ![t] = "idle"]
         ELSE /\ tpc' = [tpc EXCEPT ![t] = "ret"]
              /\ UNCHANGED <<tret, texc>>
    /\ UNCHANGED <<thread_safe, value, ttmp, tseen, ncalls, funcCalls,
                   valueWrites, returned, raisedEver>>

\* return value
ThunkReturn(t) ==
    /\ tpc[t] = "ret"
    /\ tret' = [tret EXCEPT ![t] = Returned(value)]
    /\ returned' = returned \cup {value}
    /\ tpc' = [tpc EXCEPT ![t] = "idle"]
    /\ UNCHANGED <<thread_safe, value, lock, ttmp, texc, tseen, ncalls,
                   funcCalls, valueWrites, raisedEver>>

(***************************************************************************)
(* Scope: Scope(container, parent) right after construction, no preset      *)
(* dependencies; every thread idle.                                         *)
(***************************************************************************)
Frame(fn, pc, s, k, cont, loc, only) ==
    [fn |-> fn, pc |-> pc, scope |-> s, key |-> k, cont |-> cont, loc |-> loc,
     only |-> only, id |-> NoneC, tmp |-> NoDep]

\* no exception
NoErr == [error |-> "", abstract |-> "", scope |-> ""]

\* The record of one operation of a thread: what was asked, what came back
\* (res, err), whether at its start the key was memoized as None (memo),
\* another thread was at work on the same scope and key (raced), scope[key]
\* had completed before (again), and how many _resolve_dependency calls on the
\* child scope (rdC) and the parent scope (rdP) and how many compose calls
\* (comp) it made.
Op(op, s, k, cont, loc, only, memo, raced, again) ==
    [op |-> op, scope |-> s, key |-> k, cont |-> cont, loc |-> loc, only |-> only,
     res |-> NoDep, err |-> NoErr, memo |-> memo, raced |-> raced, again |-> again,
     rdC |-> 0, rdP |-> 0, comp |-> 0]

IdleOp == Op("idle", "", "", NoneC, "", FALSE, FALSE, FALSE, FALSE)

ScopeNew ==
    /\ resolved = {}
    /\ resolvedKeys = [s \in Scopes |-> {}]
    /\ depsNone = [s \in Scopes |-> {}]
    /\ depsCanon = [s \in Scopes |-> {}]
    /\ nextOid = 0
    /\ stack = [t \in Threads |-> <<>>]
    /\ rv = [t \in Threads |-> NoDep]
    /\ cur = [t \in Threads |-> IdleOp]
    /\ done = [t \in Threads |-> IdleOp]
    /\ opsStarted = 0
    /\ gotDeps = {}
    /\ rdGot = {}

\* self._resolved[key].get((container, loc)) of scope s, None when absent
Resolved(s, k, c, loc) ==
    LET hits == {x \in resolved : x.scope = s /\ x.key = k /\ x.cont = c /\ x.loc = loc}
    IN IF hits = {} THEN NoDep ELSE (CHOOSE x \in hits : TRUE).dep

\* self._resolved[key][(container, loc)] = d of scope s
ResolvedSet(s, k, c, loc, d) ==
    {x \in resolved : ~(x.scope = s /\ x.key = k /\ x.cont = c /\ x.loc = loc)}
        \cup {[scope |-> s, key |-> k, cont |-> c, loc |-> loc, dep |-> d]}

Top(t) == stack[t][Len(stack[t])]
\* the stack of t with its innermost frame replaced by f
WithTop(t, f) == [stack[t] EXCEPT ![Len(stack[t])] = f]

\* a membership that asks the container only
InScopeContainerOnly(s, k) == InContainer(ScopeContainer(s), k)

\* key in scope (Scope.__contains__)
InScope(s, k) ==
    k \in resolvedKeys[s] \/ InContainer(ScopeContainer(s), k) \/ k \in depsNone[s]

\* a variant that never finds a key provided
IsProvidedNever(s, k) == FALSE

\* Scope.is_provided(key), only_self = False; NullScope.is_provided is False
RECURSIVE IsProvided(_, _)
IsProvided(s, k) ==
    /\ s # NullScope
    /\ (InScope(s, k) \/ IsProvided(ScopeParent(s), k))

\* the thread's innermost call returns v; c is the thread's operation record.
\* The outermost call's return completes the operation.
Return(t, v, c, e) ==
    IF Len(stack[t]) > 1
      THEN /\ stack' = [stack EXCEPT ![t] = SubSeq(@, 1, Len(@) - 1)]
           /\ rv' = [rv EXCEPT ![t] = v]
           /\ cur' = [cur EXCEPT ![t] = c]
           /\ UNCHANGED <<done, gotDeps>>
      ELSE /\ stack' = [stack EXCEPT ![t] = <<>>]
           /\ rv' = [rv EXCEPT ![t] = NoDep]
           /\ cur' = [cur EXCEPT ![t] = IdleOp]
           /\ done' = [done EXCEPT ![t] = [c EXCEPT !.res = v, !.err = e]]
           /\ gotDeps' = IF c.op \in {"get", "getdep"}
                           THEN gotDeps \cup {<<c.scope, c.key, v>>}
                           ELSE gotDeps

\* the thread's innermost call calls f
Call(t, caller, f, c) ==
    /\ stack' = [stack EXCEPT ![t] = Append(WithTop(t, caller), f)]
    /\ cur' = [cur EXCEPT ![t] = c]
    /\ UNCHANGED <<rv, done, gotDeps>>

\* the thread's innermost call moves on within its own body
Step(t, f, c) ==
    /\ stack' = [stack EXCEPT ![t] = WithTop(t, f)]
    /\ cur' = [cur EXCEPT ![t] = c]
    /\ UNCHANGED <<rv, done, gotDeps>>

\* what one _resolve_dependency call on scope s returned
Note(f, v) ==
    IF Truthy(v) /\ f.id # NoneC
      THEN rdGot \cup {<<f.scope, f.key, f.id, f.loc, v>>}
      ELSE rdGot

\* a variant that reports no container at all
DependencyContainerNone(p, s) == NoneC

\* Dependency.container: (self.provider or self.scope).container
DependencyContainer(p, s) == IF p.name # "" THEN p.container ELSE ScopeContainer(s)

\* Provider.compose(scope, key) of a Factory provider: a new Dependency
Compose(p, s, k, n) == Dep(k, s, DependencyContainer(p, s), n, "Factory")

(* ---- a thread starts an operation ---- *)

\* another thread is inside an operation on the same scope and key
Racing(t, s, k) ==
    \E u \in Threads \ {t} : cur[u].op # "idle" /\ cur[u].scope = s /\ cur[u].key = k

\* scope[key] has returned before
Again(s, k) == \E x \in gotDeps : x[1] = s /\ x[2] = k

Start(t, f, c) ==
    /\ stack[t] = <<>>
    /\ opsStarted < MaxOps
    /\ f.key \in focus
    /\ opsStarted' = opsStarted + 1
    /\ stack' = [stack EXCEPT ![t] = <<f>>]
    /\ cur' = [cur EXCEPT ![t] = c]
    /\ UNCHANGED <<focus, resolved, resolvedKeys, depsNone, depsCanon, nextOid,
                   rv, done, gotDeps, rdGot>>

\* scope[key]
StartGet(t, s, k) ==
    Start(t, Frame("get", "start", s, k, NoneC, "GLOBAL", TRUE),
          Op("get", s, k, NoneC, "GLOBAL", TRUE, k \in depsNone[s], Racing(t, s, k), Again(s, k)))

\* scope[key:], a slice whose start is the key
StartSlice(t, s, k) ==
    Start(t, Frame("slice", "start", s, k, NoneC, "GLOBAL", TRUE),
          Op("slice", s, k, NoneC, "GLOBAL", TRUE, k \in depsNone[s], Racing(t, s, k), Again(s, k)))

\* scope._resolve_dependency(key, container, loc, only_self=only)
StartResolve(t, s, k, cont, loc, only) ==
    Start(t, Frame("rd", "start", s, k, cont, loc, only),
          Op("resolve", s, k, cont, loc, only, k \in depsNone[s], Racing(t, s, k), Again(s, k)))

\* a variant that hands back the object it is given without looking it up
GetItemDepOwn(s, dep) == dep

\* self[dep] for a Dependency dep: self._dependencies[dep], or else
\* __missing__(dep): self._dependencies.setdefault(dep, dep)
GetItemDep(s, dep) ==
    LET same == {d \in depsCanon[s] : DepEq(d, dep)} IN
    IF same # {} THEN CHOOSE d \in same : TRUE ELSE dep

\* scope[d] for a Dependency d that the caller built for key k from the
\* provider registered under k in the scope's own container
StartGetDep(t, s, k) ==
    LET pros == Registry(ScopeContainer(s), "GLOBAL", k) IN
    /\ stack[t] = <<>>
    /\ opsStarted < MaxOps
    /\ k \in focus
    /\ pros # <<>> /\ pros[1].kind = "factory"
    /\ opsStarted' = opsStarted + 1
    /\ nextOid' = nextOid + 1
    /\ stack' = [stack EXCEPT ![t] =
                   <<[Frame("getdep", "start", s, k, NoneC, "GLOBAL", TRUE)
                        EXCEPT !.tmp = Compose(pros[1], s, k, nextOid + 1)]>>]
    /\ cur' = [cur EXCEPT ![t] = Op("getdep", s, k, NoneC, "GLOBAL", TRUE,
                                    k \in depsNone[s], Racing(t, s, k), Again(s, k))]
    /\ UNCHANGED <<focus, resolved, resolvedKeys, depsNone, depsCanon,
                   rv, done, gotDeps, rdGot>>

(* ---- Scope.__getitem__, Scope.__missing__ ---- *)

\* return self._dependencies[key], or __missing__(key) for a Dependency key:
\* return self._dependencies.setdefault(key, key)
GetDep(t) ==
    LET f == Top(t) IN
    /\ stack[t] # <<>> /\ f.fn = "getdep" /\ f.pc = "start"
    /\ depsCanon' = [depsCanon EXCEPT ![f.scope] = @ \cup {GetItemDep(f.scope, f.tmp)}]
    /\ Return(t, GetItemDep(f.scope, f.tmp), cur[t], NoErr)
    /\ UNCHANGED <<focus, resolved, resolvedKeys, depsNone, nextOid, opsStarted, rdGot>>

\* try: return self._dependencies[key]; except KeyError: self.__missing__(key),
\* whose first act for a key that is no Dependency is _resolve_dependency(key)
GetStart(t) ==
    LET f == Top(t) IN
    /\ stack[t] # <<>> /\ f.fn = "get" /\ f.pc = "start"
    /\ IF f.key \in depsNone[f.scope]
         THEN Return(t, NoDep, cur[t], NoErr)
         ELSE Call(t, [f EXCEPT !.pc = "missing"],
                   Frame("rd", "start", f.scope, f.key, NoneC, "GLOBAL", TRUE), cur[t])
    /\ UNCHANGED <<focus, resolved, resolvedKeys, depsNone, depsCanon, nextOid,
                   opsStarted, rdGot>>

\* a variant that stores nothing for a failed lookup
GetMissingNoMemo(t) ==
    LET f == Top(t)
        dep == rv[t]
    IN
    /\ stack[t] # <<>> /\ f.fn = "get" /\ f.pc = "missing"
    /\ IF Truthy(dep)
         THEN /\ depsCanon' = [depsCanon EXCEPT
                                  ![f.scope] = @ \cup {GetItemDep(f.scope, dep)}]
              /\ Return(t, GetItemDep(f.scope, dep), cur[t], NoErr)
         ELSE /\ Return(t, NoDep, cur[t], NoErr)
              /\ UNCHANGED depsCanon
    /\ UNCHANGED <<focus, resolved, resolvedKeys, depsNone, nextOid, opsStarted, rdGot>>

\* elif dep := self._resolve_dependency(key): return self[dep]
\*      (self[dep] is self._dependencies[dep], or setdefault(dep, dep))
\* elif self.is_provided(key): return self._dependencies.setdefault(key)
GetMissing(t) ==
    LET f == Top(t)
        dep == rv[t]
    IN
    /\ stack[t] # <<>> /\ f.fn = "get" /\ f.pc = "missing"
    /\ IF Truthy(dep)
         THEN /\ depsCanon' = [depsCanon EXCEPT
                                  ![f.scope] = @ \cup {GetItemDep(f.scope, dep)}]
              /\ Return(t, GetItemDep(f.scope, dep), cur[t], NoErr)
              /\ UNCHANGED depsNone
         ELSE /\ Return(t, NoDep, cur[t], NoErr)
              /\ depsNone' = IF IsProvided(f.scope, f.key)
                               THEN [depsNone EXCEPT ![f.scope] = @ \cup {f.key}]
                               ELSE depsNone
              /\ UNCHANGED depsCanon
    /\ UNCHANGED <<focus, resolved, resolvedKeys, nextOid, opsStarted, rdGot>>

\* key.__class__ is slice: return self[key.start] or self.parent[key]
SliceStart(t) ==
    LET f == Top(t) IN
    /\ stack[t] # <<>> /\ f.fn = "slice" /\ f.pc = "start"
    /\ Call(t, [f EXCEPT !.pc = "first"],
            Frame("get", "start", f.scope, f.key, NoneC, "GLOBAL", TRUE), cur[t])
    /\ UNCHANGED <<focus, resolved, resolvedKeys, depsNone, depsCanon, nextOid,
                   opsStarted, rdGot>>

\* ... or self.parent[key]; NullScope.__getitem__ returns None
SliceFirst(t) ==
    LET f == Top(t) IN
    /\ stack[t] # <<>> /\ f.fn = "slice" /\ f.pc = "first"
    /\ IF Truthy(rv[t])
         THEN Return(t, rv[t], cur[t], NoErr)
         ELSE IF ScopeParent(f.scope) = NullScope
                THEN Return(t, NoDep, cur[t], NoErr)
                ELSE Call(t, [f EXCEPT !.pc = "second"],
                          Frame("slice", "start", ScopeParent(f.scope), f.key,
                                NoneC, "GLOBAL", TRUE), cur[t])
    /\ UNCHANGED <<focus, resolved, resolvedKeys, depsNone, depsCanon, nextOid,
                   opsStarted, rdGot>>

SliceSecond(t) ==
    LET f == Top(t) IN
    /\ stack[t] # <<>> /\ f.fn = "slice" /\ f.pc = "second"
    /\ Return(t, rv[t], cur[t], NoErr)
    /\ UNCHANGED <<focus, resolved, resolvedKeys, depsNone, depsCanon, nextOid,
                   opsStarted, rdGot>>

(* ---- Scope._resolve_dependency (src/xdi/scopes.py:84-119) ---- *)

\* the operation record with one more _resolve_dependency call on scope s
CountRd(c, s) == IF s = "sC" THEN [c EXCEPT !.rdC = @ + 1] ELSE [c EXCEPT !.rdP = @ + 1]

\* a variant that delegates to the parent whatever only_self says
RdTailAlways(t, f, c) ==
    /\ IF ScopeParent(f.scope) = NullScope
         THEN Return(t, NoDep, c, NoErr)
         ELSE Call(t, [f EXCEPT !.pc = "delegated"],
                   Frame("rd", "start", ScopeParent(f.scope), f.key, f.cont, f.loc, FALSE), c)
    /\ UNCHANGED rdGot

\* if not only_self:
\*     return self.parent._resolve_dependency(key, container, loc, only_self=False)
\* (NullScope._resolve_dependency returns None)
RdTail(t, f, c) ==
    /\ IF ~f.only
         THEN IF ScopeParent(f.scope) = NullScope
                THEN Return(t, NoDep, c, NoErr)
                ELSE Call(t, [f EXCEPT !.pc = "delegated"],
                          Frame("rd", "start", ScopeParent(f.scope), f.key, f.cont,
                                f.loc, FALSE), c)
         ELSE Return(t, NoDep, c, NoErr)
    /\ UNCHANGED rdGot

\* if not container.parent and loc is ContainerContext.LOCAL: return
\* container = container.parent
RdWalk(t, f, c) ==
    IF ContainerParent(f.cont) = NoneC /\ f.loc = "LOCAL"
      THEN Return(t, NoDep, c, NoErr) /\ UNCHANGED rdGot
      ELSE RdTail(t, [f EXCEPT !.cont = ContainerParent(f.cont)], c)

\* if not (container is self.container or loc is ContainerContext.LOCAL):
\*     if dp := self._resolve_dependency(key, None, loc, only_self=True): ...
RdFail(t, f, c) ==
    IF ~(f.cont = ScopeContainer(f.scope) \/ f.loc = "LOCAL")
      THEN /\ Call(t, [f EXCEPT !.pc = "retried"],
                   Frame("rd", "start", f.scope, f.key, NoneC, f.loc, TRUE), c)
           /\ UNCHANGED rdGot
      ELSE RdWalk(t, f, c)

\* if container := self.container.get_container(container):
\*     ident = container, loc
\*     resolved = self._resolved[key]
\*     if ident in resolved: return resolved[ident]
\*     ... pros = ns.get_all(key) ...
RdStart(t) ==
    LET f == Top(t)
        c0 == GetContainer(ScopeContainer(f.scope), f.cont)
        g == [f EXCEPT !.cont = c0, !.id = c0]
        c == CountRd(cur[t], f.scope)
        hit == Resolved(f.scope, f.key, c0, f.loc)
    IN
    /\ stack[t] # <<>> /\ f.fn = "rd" /\ f.pc = "start"
    /\ IF c0 = NoneC
         THEN /\ RdTail(t, g, c)
              /\ UNCHANGED resolvedKeys
         ELSE /\ resolvedKeys' = [resolvedKeys EXCEPT ![f.scope] = @ \cup {f.key}]
              /\ IF hit # NoDep
                   THEN Return(t, hit, c, NoErr) /\ rdGot' = Note(g, hit)
                   ELSE IF Registry(c0, f.loc, f.key) # <<>>
                          THEN Step(t, [g EXCEPT !.pc = "compose"], c) /\ UNCHANGED rdGot
                          ELSE RdFail(t, g, c)
    /\ UNCHANGED <<focus, resolved, depsNone, depsCanon, nextOid, opsStarted>>

\* if pro := pros[0].compose(self, key, *pros[1:]):
RdCompose(t) ==
    LET f == Top(t)
        p == Registry(f.cont, f.loc, f.key)[1]
        c == [cur[t] EXCEPT !.comp = @ + 1]
    IN
    /\ stack[t] # <<>> /\ f.fn = "rd" /\ f.pc = "compose"
    /\ CASE p.kind = "factory" ->
              /\ nextOid' = nextOid + 1
              /\ Step(t, [f EXCEPT !.pc = "store",
                                   !.tmp = Compose(p, f.scope, f.key, nextOid + 1)], c)
              /\ UNCHANGED rdGot
         [] p.kind = "alias" ->
              /\ Call(t, [f EXCEPT !.pc = "composed"],
                      Frame("get", "start", f.scope, p.target, NoneC, "GLOBAL", TRUE), c)
              /\ UNCHANGED <<nextOid, rdGot>>
         [] OTHER ->
              /\ RdFail(t, f, c)
              /\ UNCHANGED nextOid
    /\ UNCHANGED <<focus, resolved, resolvedKeys, depsNone, depsCanon, opsStarted>>

\* the Alias composed to what its target resolved to in this scope
RdComposed(t) ==
    LET f == Top(t) IN
    /\ stack[t] # <<>> /\ f.fn = "rd" /\ f.pc = "composed"
    /\ IF Truthy(rv[t])
         THEN Step(t, [f EXCEPT !.pc = "store", !.tmp = rv[t]], cur[t]) /\ UNCHANGED rdGot
         ELSE RdFail(t, f, cur[t])
    /\ UNCHANGED <<focus, resolved, resolvedKeys, depsNone, depsCanon, nextOid,
                   opsStarted>>

\* a variant that stores with plain assignment: resolved[ident] = pro
RdStoreOverwrite(t) ==
    LET f == Top(t) IN
    /\ stack[t] # <<>> /\ f.fn = "rd" /\ f.pc = "store"
    /\ resolved' = ResolvedSet(f.scope, f.key, f.id, f.loc, f.tmp)
    /\ Return(t, f.tmp, cur[t], NoErr)
    /\ rdGot' = Note(f, f.tmp)
    /\ UNCHANGED <<focus, resolvedKeys, depsNone, depsCanon, nextOid, opsStarted>>

\* return resolved.setdefault(ident, pro)
RdStore(t) ==
    LET f == Top(t)
        old == Resolved(f.scope, f.key, f.id, f.loc)
        r == IF old # NoDep THEN old ELSE f.tmp
    IN
    /\ stack[t] # <<>> /\ f.fn = "rd" /\ f.pc = "store"
    /\ resolved' = ResolvedSet(f.scope, f.key, f.id, f.loc, r)
    /\ Return(t, r, cur[t], NoErr)
    /\ rdGot' = Note(f, r)
    /\ UNCHANGED <<focus, resolvedKeys, depsNone, depsCanon, nextOid, opsStarted>>

\* if dp := self._resolve_dependency(key, None, loc, only_self=True):
\*     resolved[ident] = dp
\*     return dp
RdRetried(t) ==
    LET f == Top(t)
        dp == rv[t]
    IN
    /\ stack[t] # <<>> /\ f.fn = "rd" /\ f.pc = "retried"
    /\ IF Truthy(dp)
         THEN /\ resolved' = ResolvedSet(f.scope, f.key, f.id, f.loc, dp)
              /\ Return(t, dp, cur[t], NoErr)
              /\ rdGot' = Note(f, dp)
         ELSE /\ RdWalk(t, f, cur[t])
              /\ UNCHANGED resolved
    /\ UNCHANGED <<focus, resolvedKeys, depsNone, depsCanon, nextOid, opsStarted>>

\* return self.parent._resolve_dependency(...)
RdDelegated(t) ==
    LET f == Top(t) IN
    /\ stack[t] # <<>> /\ f.fn = "rd" /\ f.pc = "delegated"
    /\ Return(t, rv[t], cur[t], NoErr)
    /\ rdGot' = Note(f, rv[t])
    /\ UNCHANGED <<focus, resolved, resolvedKeys, depsNone, depsCanon, nextOid,
                   opsStarted>>

(* ---- resolving a marker Dep(key, ONLY_SELF) / Dep(key) and binding it ---- *)

\* LookupErrorDependency(abstract, scope)  (src/xdi/_dependency.py:94-97)
LookupErrorDependency(a, s) == Dep(a, s, NoneC, 0, "LookupErrorDependency")

\* LookupErrorDependency.bind(injector):
\*     raise InjectorLookupError(self.abstract, self.scope or injector.scope)
LookupErrorBind(d, injectorScope) ==
    [error |-> "InjectorLookupError", abstract |-> d.abstract,
     scope |-> IF d.scope \in Scopes THEN d.scope ELSE injectorScope]

\* resolve Dep(key, predicate): the marker's provider asks the scope for key,
\* with only_self as the marker says
StartMarker(t, s, k, only) ==
    Start(t, Frame("marker", "start", s, k, NoneC, "GLOBAL", only),
          Op("marker", s, k, NoneC, "GLOBAL", only, k \in depsNone[s], Racing(t, s, k), Again(s, k)))

MarkerStart(t) ==
    LET f == Top(t) IN
    /\ stack[t] # <<>> /\ f.fn = "marker" /\ f.pc = "start"
    /\ Call(t, [f EXCEPT !.pc = "resolved"],
            Frame("rd", "start", f.scope, f.key, NoneC, "GLOBAL", f.only), cur[t])
    /\ UNCHANGED <<focus, resolved, resolvedKeys, depsNone, depsCanon, nextOid,
                   opsStarted, rdGot>>

\* an unresolved marker without default composes to LookupErrorDependency,
\* which the injector binds
MarkerResolved(t) ==
    LET f == Top(t)
        led == LookupErrorDependency(f.key, f.scope)
    IN
    /\ stack[t] # <<>> /\ f.fn = "marker" /\ f.pc = "resolved"
    /\ IF Truthy(rv[t])
         THEN Return(t, rv[t], cur[t], NoErr)
         ELSE Return(t, led, cur[t], LookupErrorBind(led, f.scope))
    /\ UNCHANGED <<focus, resolved, resolvedKeys, depsNone, depsCanon, nextOid,
                   opsStarted, rdGot>>

SingletonUnused ==
    /\ thread_safe = FALSE
    /\ value = Missing
    /\ lock = 0
    /\ tpc = [t \in Threads |-> "idle"]
    /\ ttmp = [t \in Threads |-> 0]
    /\ texc = [t \in Threads |-> FALSE]
    /\ tret = [t \in Threads |-> NoResult]
    /\ tseen = [t \in Threads |-> {}]
    /\ ncalls = [t \in Threads |-> 0]
    /\ funcCalls = 0
    /\ valueWrites = 0
    /\ returned = {}
    /\ raisedEver = FALSE

(***************************************************************************)
(* Predicates over the PRO and dependency markers (src/xdi/markers.py).     *)
(* A predicate is written in postfix: its operands' tokens, then its own.   *)
(***************************************************************************)
\* Python's None where an int may stand (slice start, stop, step)
NoneInt == 99

Tok(k, a, b, c) == [k |-> k, a |-> a, b |-> b, c |-> c]

\* ProNoopPredicate()
Noop == <<Tok("noop", 0, 0, 0)>>
\* AccessLevel(level): public 1, protected 2, guarded 3, private 4
AccessLevel(level) == <<Tok("access", level, 0, 0)>>
\* ScopePredicate.only_self (True, 1) and ScopePredicate.skip_self (False, 0)
ScopePredicate(b) == <<Tok("scope", b, 0, 0)>>
\* a ProSlice whose vars are (start, stop, step)
ProSlice(start, stop, step) == <<Tok("slice", start, stop, step)>>
\* ProFilter(fn), fn the n-th of FilterFns
ProFilter(n) == <<Tok("filter", n, 0, 0)>>
\* ProOrPredicate(l, r), ProAndPredicate(l, r), ProSubPredicate(l, r)
ProOrPredicate(l, r) == l \o r \o <<Tok("or", 0, 0, 0)>>
ProAndPredicate(l, r) == l \o r \o <<Tok("and", 0, 0, 0)>>
ProSubPredicate(l, r) == l \o r \o <<Tok("sub", 0, 0, 0)>>
\* ProInvertPredicate(right): vars = (_noop_pred, right)
ProInvertPredicate(right) == Noop \o right \o <<Tok("invert", 0, 0, 0)>>

\* the filter functions, each the set of containers it accepts
FilterFns == <<{"cA"}, {"cB", "cP"}>>
\* c.access_level(src.container), the level at which src sees container c
AccessOf(c) == CASE c = "cA" -> 4 [] c = "cB" -> 2 [] OTHER -> 1

\* the predicates without operands a run builds with
Leaves ==
    {Noop, AccessLevel(2), ScopePredicate(1), ScopePredicate(0), ProFilter(1),
     ProFilter(2), ProSlice(1, NoneInt, NoneInt), ProSlice(NoneInt, NoneInt, -1),
     ProSlice(NoneInt, 2, NoneInt)}

\* the PRO lists: the sequences of distinct containers
ProLists ==
    {q \in UNION {[1..n -> Containers] : n \in 0..Cardinality(Containers)} :
        \A i, j \in DOMAIN q : i # j => q[i] # q[j]}

Arity(t) == IF t.k \in {"or", "and", "sub", "invert"} THEN 2 ELSE 0

\* where the operand that ends at position i of p begins
RECURSIVE OperandStart(_, _)
OperandStart(p, i) ==
    IF Arity(p[i]) = 0 THEN i
    ELSE OperandStart(p, OperandStart(p, i - 1) - 1)

\* vars[0] and vars[1] of an operator predicate
Left(p) == SubSeq(p, 1, OperandStart(p, Len(p) - 1) - 1)
Right(p) == SubSeq(p, OperandStart(p, Len(p) - 1), Len(p) - 1)

\* _PredicateCompareMixin.__eq__: isinstance one way or the other (a
\* ProInvertPredicate is a ProSubPredicate) and equal vars
SameClass(t, u) ==
    \/ t.k = u.k
    \/ {t.k, u.k} = {"sub", "invert"}
PredEq(p, q) ==
    /\ Len(p) = Len(q)
    /\ \A i \in 1..Len(p) :
          /\ SameClass(p[i], q[i])
          /\ p[i].a = q[i].a /\ p[i].b = q[i].b /\ p[i].c = q[i].c

\* it[start:stop:step] of a Python tuple
PySlice(it, start, stop, step) ==
    LET n == Len(it)
        st == IF step = NoneInt THEN 1 ELSE step
        lower == IF st > 0 THEN 0 ELSE -1
        upper == IF st > 0 THEN n ELSE n - 1
        Adjust(v) == IF v < 0
                       THEN (IF v + n < lower THEN lower ELSE v + n)
                       ELSE (IF v > upper THEN upper ELSE v)
        b == IF start = NoneInt THEN (IF st > 0 THEN lower ELSE upper) ELSE Adjust(start)
        e == IF stop = NoneInt THEN (IF st > 0 THEN upper ELSE lower) ELSE Adjust(stop)
        cnt == IF st > 0
                 THEN (IF e > b THEN (e - b + st - 1) \div st ELSE 0)
                 ELSE (IF e < b THEN (b - e - st - 1) \div (0 - st) ELSE 0)
    IN IF cnt = 0 THEN <<>> ELSE [i \in 1..cnt |-> it[b + (i - 1) * st + 1]]

\* a variant that leaves the result in reverse order
SortedReversed(res, it) ==
    LET r == SelectSeq(it, LAMBDA c : c \in res)
    IN [i \in 1..Len(r) |-> r[Len(r) + 1 - i]]

\* sorted(res, key=it.index), res a set of members of it
Sorted(res, it) == SelectSeq(it, LAMBDA c : c \in res)

\* operator.or_, operator.and_, operator.sub on two sets
Operate(k, x, y) ==
    CASE k = "or" -> x \cup y
      [] k = "and" -> x \cap y
      [] OTHER -> x \ y

\* p.pro_entries(it, scope, src), same = (scope is src.scope)
RECURSIVE ProEntries(_, _, _)
ProEntries(p, it, same) ==
    LET t == p[Len(p)] IN
    CASE t.k = "noop" -> it
      [] t.k = "access" -> SelectSeq(it, LAMBDA c : AccessOf(c) >= t.a)
      [] t.k = "scope" -> IF (IF same THEN 1 ELSE 0) = t.a THEN it ELSE <<>>
      [] t.k = "slice" -> PySlice(it, t.a, t.b, t.c)
      [] t.k = "filter" -> SelectSeq(it, LAMBDA c : c \in FilterFns[t.a])
      [] OTHER -> Sorted(Operate(t.k, SeqToSet(ProEntries(Left(p), it, same)),
                                      SeqToSet(ProEntries(Right(p), it, same))), it)

\* _PredicateOpsMixin.__and__ and __or__: x if x == self, else the operator
PredAnd(self, x) == IF PredEq(x, self) THEN self ELSE ProAndPredicate(self, x)
PredOr(self, x) == IF PredEq(x, self) THEN self ELSE ProOrPredicate(self, x)

NoPred == <<>>
Ok(p) == [err |-> "", pred |-> p]
Err(e) == [err |-> e, pred |-> NoPred]

\* _PredicateOpsMixin.__invert__(self, x), called with the arguments args
\* after self: without x the call itself fails
PredInvert(self, args) ==
    IF Len(args) # 1 THEN Err("TypeError")
    ELSE Ok(ProInvertPredicate(self))

\* ~p: Python calls type(p).__invert__(p)
UnaryInvert(p) == PredInvert(p, <<>>)

\* Dep(abstract, predicate, default): a PureDep when predicate and default
\* are the defaults
DepNew(abstract, predicate, default) ==
    [abstract |-> abstract, predicate |-> predicate, default |-> default,
     cls |-> IF PredEq(predicate, Noop) /\ default = Missing THEN "PureDep" ELSE "Dep"]

\* PureDep.__and__: self.replace(predicate=self.predicate & x)
DepAnd(d, x) == DepNew(d.abstract, PredAnd(d.predicate, x), d.default)

\* the markers d a run starts from
Markers == {DepNew("A", pr, df) : pr \in {Noop, AccessLevel(2)}, df \in {Missing, 1}}

MarkersNew ==
    /\ pstack = <<>>
    /\ phase = "build"
    /\ pi = <<>>
    /\ sameScope = FALSE
    /\ out = <<>>
    /\ out2 = <<>>
    /\ marker0 = DepNew("A", Noop, Missing)
    /\ marker = DepNew("A", Noop, Missing)
    /\ rerr = ""

RECURSIVE Tokens(_)
Tokens(st) == IF st = <<>> THEN 0 ELSE Len(st[1]) + Tokens(Tail(st))

TopPred == pstack[Len(pstack)]
\* the stack with its two latest predicates replaced by p
Combined(p) == Append(SubSeq(pstack, 1, Len(pstack) - 2), p)

\* a predicate without operands is constructed, to stand alone or as the
\* right operand of the one built before
NewLeaf(l) ==
    /\ phase = "build" /\ Len(pstack) <= 1
    /\ Tokens(pstack) < MaxTokens
    /\ pstack' = Append(pstack, l)
    /\ UNCHANGED <<phase, pi, sameScope, out, out2, marker0, marker, rerr>>

\* l & r of the two latest predicates
OpAnd ==
    /\ phase = "build" /\ Len(pstack) >= 2
    /\ Tokens(pstack) < MaxTokens
    /\ pstack' = Combined(PredAnd(pstack[Len(pstack) - 1], TopPred))
    /\ UNCHANGED <<phase, pi, sameScope, out, out2, marker0, marker, rerr>>

\* l | r of the two latest predicates
OpOr ==
    /\ phase = "build" /\ Len(pstack) >= 2
    /\ Tokens(pstack) < MaxTokens
    /\ pstack' = Combined(PredOr(pstack[Len(pstack) - 1], TopPred))
    /\ UNCHANGED <<phase, pi, sameScope, out, out2, marker0, marker, rerr>>

\* ProSubPredicate(l, r) of the two latest predicates
OpSub ==
    /\ phase = "build" /\ Len(pstack) >= 2
    /\ Tokens(pstack) < MaxTokens
    /\ pstack' = Combined(ProSubPredicate(pstack[Len(pstack) - 1], TopPred))
    /\ UNCHANGED <<phase, pi, sameScope, out, out2, marker0, marker, rerr>>

\* ProInvertPredicate(p) of the latest predicate
OpInvert ==
    /\ phase = "build" /\ Len(pstack) >= 1
    /\ Tokens(pstack) + 1 < MaxTokens
    /\ pstack' = [pstack EXCEPT ![Len(pstack)] = ProInvertPredicate(TopPred)]
    /\ UNCHANGED <<phase, pi, sameScope, out, out2, marker0, marker, rerr>>

\* r = p.pro_entries(it, scope, src), then p.pro_entries(r, scope, src)
Apply(it, same) ==
    /\ phase = "build" /\ Len(pstack) = 1
    /\ phase' = "applied"
    /\ pi' = it
    /\ sameScope' = same
    /\ out' = ProEntries(TopPred, it, same)
    /\ out2' = ProEntries(TopPred, ProEntries(TopPred, it, same), same)
    /\ UNCHANGED <<pstack, marker0, marker, rerr>>

\* d & p
MarkerAnd(d) ==
    /\ phase = "build" /\ Len(pstack) = 1
    /\ phase' = "anded"
    /\ marker0' = d
    /\ marker' = DepAnd(d, TopPred)
    /\ UNCHANGED <<pstack, pi, sameScope, out, out2, rerr>>

\* (d & p) & ~p: ~p is evaluated first
MarkerAndInverted ==
    LET r == UnaryInvert(TopPred) IN
    /\ phase = "anded"
    /\ phase' = "done"
    /\ IF r.err # ""
         THEN rerr' = r.err /\ UNCHANGED marker
         ELSE marker' = DepAnd(marker, r.pred) /\ UNCHANGED rerr
    /\ UNCHANGED <<pstack, pi, sameScope, out, out2, marker0>>

(***************************************************************************)
(* Marker construction with object identity.  The heap holds the objects   *)
(* alive; an object is referred to by its index.  Plain objects are the     *)
(* abstracts that are no markers (classes: equal only to themselves).       *)
(***************************************************************************)
MaxObjects == 5

Obj(cls, abstract, name, predicate, default) ==
    [cls |-> cls, abstract |-> abstract, name |-> name,
     predicate |-> predicate, default |-> default]

PlainObjs == <<Obj("plain", 0, 1, Noop, Missing), Obj("plain", 0, 2, Noop, Missing)>>

Created(h, o) == [heap |-> Append(h, o), ref |-> Len(h) + 1]
Same(h, a) == [heap |-> h, ref |-> a]

\* PureDep.__new__(cls, abstract) called as PureDep(abstract)
PureDepCall(h, a) ==
    IF h[a].cls = "PureDep" THEN Same(h, a)
    ELSE Created(h, Obj("PureDep", a, 0, Noop, Missing))

\* Dep.__new__ that constructs a Dep whatever its arguments
DepCallNoIntern(im, h, a, pr, df) == Created(h, Obj("Dep", a, 0, pr, df))

\* Dep.__new__(cls, abstract, predicate, default) called as Dep(...), of
\* xdi/markers.py (im = "markers") and of xdi/__init__.py (im = "init")
DepCall(im, h, a, pr, df) ==
    IF PredEq(pr, Noop) /\ df = Missing
    THEN IF im = "markers" /\ h[a].cls \in {"Dep", "PureDep"}
         THEN Same(h, a)
         ELSE PureDepCall(h, a)
    ELSE Created(h, Obj("Dep", a, 0, pr, df))

\* issubclass(type(y), type(x)) with type(y) is not type(x)
ProperSubclass(h, y, x) == h[y].cls = "Dep" /\ h[x].cls = "PureDep"

RECURSIVE PyEq(_, _, _), MethodEq(_, _, _)
\* type(x).__eq__(x, y): "T", "F" or "NI" for NotImplemented
MethodEq(h, x, y) ==
    CASE h[x].cls = "plain" -> IF x = y THEN "T" ELSE "NI"
      [] h[x].cls = "PureDep" -> IF PyEq(h, h[x].abstract, y) THEN "T" ELSE "F"
      [] h[x].cls = "Dep" ->
            IF h[y].cls # "Dep" THEN "NI"
            ELSE IF /\ PyEq(h, h[x].abstract, h[y].abstract)
                    /\ PredEq(h[x].predicate, h[y].predicate)
                    /\ h[x].default = h[y].default
                 THEN "T" ELSE "F"

\* x == y: the operand's method, then the reflected one, then identity
PyEq(h, x, y) ==
    LET l == IF ProperSubclass(h, y, x) THEN y ELSE x
        r == IF ProperSubclass(h, y, x) THEN x ELSE y
        m1 == MethodEq(h, l, r)
        m2 == MethodEq(h, r, l)
    IN  IF m1 # "NI" THEN m1 = "T"
        ELSE IF m2 # "NI" THEN m2 = "T"
        ELSE x = y

RECURSIVE PyHash(_, _)
\* hash(x): a plain object's own, a PureDep's hash(_ident), a Dep's hash of
\* its (abstract, predicate, default)
PyHash(h, x) ==
    CASE h[x].cls = "plain" -> h[x].name
      [] h[x].cls = "PureDep" -> PyHash(h, h[x].abstract)
      [] h[x].cls = "Dep" ->
            100 + 10 * PyHash(h, h[x].abstract)
                + (IF PredEq(h[x].predicate, Noop) THEN 0 ELSE 2) + h[x].default

NoCall == [op |-> "", arg |-> 0, predicate |-> Noop, default |-> Missing, res |-> 0]

InterningNew ==
    /\ impl = "markers"
    /\ heap = PlainObjs
    /\ last = NoCall

Objs == 1..Len(heap)

\* PureDep(a) of an object alive
CallPureDep(a) ==
    LET r == PureDepCall(heap, a) IN
    /\ Len(heap) < MaxObjects
    /\ heap' = r.heap
    /\ last' = [op |-> "PureDep", arg |-> a, predicate |-> Noop,
                default |-> Missing, res |-> r.ref]
    /\ UNCHANGED impl

\* Dep(a, pr, df) of an object alive
CallDep(a, pr, df) ==
    LET r == DepCall(impl, heap, a, pr, df) IN
    /\ Len(heap) < MaxObjects
    /\ heap' = r.heap
    /\ last' = [op |-> "Dep", arg |-> a, predicate |-> pr,
                default |-> df, res |-> r.ref]
    /\ UNCHANGED impl

(***************************************************************************)
(* Dependency identity: _v_ident, __eq__, __ne__ and __hash__.              *)
(***************************************************************************)
DependencyClasses == {"Value", "Factory", "Singleton"}
NoProvider == Prov("", NoneC, "", "")
Providers == {NoProvider, Prov("fA", "cA", "factory", ""),
              Prov("fB", "cB", "factory", ""), Prov("fP", "cP", "factory", "")}

\* Dependency(abstract, scope, provider, concrete=...) of the class cl; the
\* attribute _v_ident is computed once, when the record is built
Dependency(cl, a, s, p, co) ==
    [cls |-> cl, abstract |-> a, scope |-> s, provider |-> p, concrete |-> co,
     v_ident |-> <<a, s, DependencyContainer(p, s)>>]

DependencyRecords ==
    {Dependency(cl, a, s, p, co) :
        cl \in DependencyClasses, a \in {"Kown", "Kpar"}, s \in Scopes,
        p \in Providers, co \in {1, 2}}

\* Dependency.__eq__ that does not look at the class
DependencyEqAnyClass(d, o) == o.v_ident = d.v_ident

\* Dependency.__eq__(self, o) of a Dependency o
DependencyEq(d, o) ==
    IF o.cls = d.cls THEN o.v_ident = d.v_ident ELSE FALSE

\* Dependency.__ne__(self, o) of a Dependency o
DependencyNe(d, o) ==
    IF o.cls = d.cls THEN o.v_ident # d.v_ident ELSE TRUE

\* Dependency.__hash__: _ash, the hash of _v_ident (taken as collision free)
DependencyHash(d) == d.v_ident

NoCmp == [done |-> FALSE, eq |-> FALSE, ne |-> FALSE, hasheq |-> FALSE]

IdentityNew ==
    /\ da = Dependency("Value", "Kown", "sC", NoProvider, 1)
    /\ db = Dependency("Value", "Kown", "sC", NoProvider, 1)
    /\ cmp = NoCmp

\* da == db, da != db, hash(da) == hash(db)
Compare ==
    /\ ~cmp.done
    /\ cmp' = [done |-> TRUE, eq |-> DependencyEq(da, db),
               ne |-> DependencyNe(da, db),
               hasheq |-> (DependencyHash(da) = DependencyHash(db))]
    /\ UNCHANGED <<da, db>>

(***************************************************************************)
(* The injector life cycle and the context scope.  The tests drive a        *)
(* ContextScope `sub` from one main coroutine and from the tasks it         *)
(* gathers; an injector is FRESH when constructed, ACTIVE once set up as    *)
(* the scope's current injector and DISPOSED after reset.                   *)
(***************************************************************************)
NTasks == 3
MaxInjectors == 5
MaxMainOps == 4
MaxResources == 3

Tasks == 1..NTasks
\* the main coroutine, as a caller of sub.injector()
Main == 0
Injectors == 1..Len(injs)

NoOp == [op |-> "", inj |-> 0, before |-> "", raised |-> ""]
DoneOp(op, i, e) == [op |-> op, inj |-> i, before |-> injs[i], raised |-> e]
NoRes == [active |-> FALSE, val |-> 0]
Resource(n, f) == [id |-> n, fails |-> f]

RECURSIVE Ids(_)
Ids(q) == IF q = <<>> THEN <<>> ELSE <<q[1].id>> \o Ids(Tail(q))

RECURSIVE Reverse(_)
Reverse(q) == IF q = <<>> THEN <<>> ELSE Append(Reverse(Tail(q)), q[1])

LifecycleNew ==
    /\ injs = <<>>
    /\ current = 0
    /\ built = 0
    /\ mainpc = "main"
    /\ nops = 0
    /\ gathered = FALSE
    /\ gcur = 0
    /\ tph = [t \in Tasks |-> "new"]
    /\ tres = [t \in Tasks \cup {Main} |-> NoRes]
    /\ dstack = <<>>
    /\ pushed = <<>>
    /\ released = <<>>
    /\ pending = <<>>
    /\ reported = <<>>
    /\ lastop = NoOp

\* the main coroutine is free to start an operation
MainOp ==
    /\ mainpc = "main"
    /\ nops < MaxMainOps
    /\ nops' = nops + 1

\* sub.is_active
IsActive == current # 0

\* ContextScope.new_injector(): one more injector, FRESH
NewInjector == Append(injs, "FRESH")

\* an operation that raised: nothing but the record of it changes
Raise(op, i, e) ==
    /\ lastop' = DoneOp(op, i, e)
    /\ UNCHANGED <<injs, current, built, mainpc, gathered, gcur, tph, tres,
                   dstack, pushed, released, pending, reported>>

\* ContextScope._set_current_injector(i) that replaces the current injector
SetCurrentInjectorAgain(op, i) ==
    /\ injs' = [injs EXCEPT ![i] = "ACTIVE"]
    /\ current' = i
    /\ built' = 0
    /\ dstack' = <<>> /\ pushed' = <<>> /\ released' = <<>>
    /\ pending' = <<>> /\ reported' = <<>>
    /\ lastop' = DoneOp(op, i, "")
    /\ UNCHANGED <<mainpc, gathered, gcur, tph, tres>>

\* ContextScope._set_current_injector(i): i becomes the current injector,
\* InjectorError when there is one already
SetCurrentInjector(op, i) ==
    IF current # 0 THEN Raise(op, i, "InjectorError")
    ELSE SetCurrentInjectorAgain(op, i)

\* sub._set_current_injector(i) of a new injector i, called by the main
\* coroutine
SetCurrent(i) ==
    /\ MainOp
    /\ injs[i] = "FRESH"
    /\ SetCurrentInjector("set_current", i)

\* injector.setup() that does not look at the injector's state
InjSetupAnyState(i) ==
    /\ MainOp
    /\ SetCurrentInjector("setup", i)

\* injector.setup(): only a FRESH injector is set up
InjSetup(i) ==
    /\ MainOp
    /\ IF injs[i] # "FRESH" THEN Raise("setup", i, "StateError")
       ELSE SetCurrentInjector("setup", i)

\* inj = sub.setup() of the inactive scope: a new injector, set up
ScopeSetup ==
    /\ MainOp
    /\ ~IsActive
    /\ Len(injs) < MaxInjectors
    /\ injs' = Append(injs, "ACTIVE")
    /\ current' = Len(injs) + 1
    /\ built' = 1
    /\ dstack' = <<>> /\ pushed' = <<>> /\ released' = <<>>
    /\ pending' = <<>> /\ reported' = <<>>
    /\ lastop' = [op |-> "scope_setup", inj |-> Len(injs) + 1,
                  before |-> "FRESH", raised |-> ""]
    /\ UNCHANGED <<mainpc, gathered, gcur, tph, tres>>

\* injector[key]
GetItem(i) ==
    /\ MainOp
    /\ lastop' = DoneOp("getitem", i, IF injs[i] = "ACTIVE" THEN "" ELSE "StateError")
    /\ UNCHANGED <<injs, current, built, mainpc, gathered, gcur, tph, tres,
                   dstack, pushed, released, pending, reported>>

\* injector.parent
Parent(i) ==
    /\ MainOp
    /\ lastop' = DoneOp("parent", i, IF injs[i] = "ACTIVE" THEN "" ELSE "StateError")
    /\ UNCHANGED <<injs, current, built, mainpc, gathered, gcur, tph, tres,
                   dstack, pushed, released, pending, reported>>

\* a resource whose release fails or not is pushed on the disposal stack
Push(i, f) ==
    /\ MainOp
    /\ Len(pushed) < MaxResources
    /\ IF injs[i] # "ACTIVE" THEN Raise("push", i, "StateError")
       ELSE /\ dstack' = Append(dstack, Resource(Len(pushed) + 1, f))
            /\ pushed' = Append(pushed, Resource(Len(pushed) + 1, f))
            /\ lastop' = DoneOp("push", i, "")
            /\ UNCHANGED <<injs, current, built, mainpc, gathered, gcur, tph,
                           tres, released, pending, reported>>

\* injector.reset() starts: only an ACTIVE injector is reset
InjReset(i) ==
    /\ MainOp
    /\ IF injs[i] # "ACTIVE" THEN Raise("reset", i, "StateError")
       ELSE /\ mainpc' = "reset"
            /\ lastop' = DoneOp("reset", i, "")
            /\ UNCHANGED <<injs, current, built, gathered, gcur, tph, tres,
                           dstack, pushed, released, pending, reported>>

\* a reset that stops at the first release that fails
ReleaseAbort ==
    /\ mainpc = "reset" /\ dstack # <<>>
    /\ released' = Append(released, dstack[Len(dstack)].id)
    /\ IF dstack[Len(dstack)].fails
         THEN /\ dstack' = <<>>
              /\ pending' = Append(pending, dstack[Len(dstack)].id)
         ELSE /\ dstack' = SubSeq(dstack, 1, Len(dstack) - 1)
              /\ UNCHANGED pending
    /\ UNCHANGED <<injs, current, built, mainpc, nops, gathered, gcur, tph,
                   tres, pushed, reported, lastop>>

\* a reset that releases the oldest resource first
ReleaseOldest ==
    /\ mainpc = "reset" /\ dstack # <<>>
    /\ released' = Append(released, dstack[1].id)
    /\ dstack' = Tail(dstack)
    /\ pending' = IF dstack[1].fails THEN Append(pending, dstack[1].id) ELSE pending
    /\ UNCHANGED <<injs, current, built, mainpc, nops, gathered, gcur, tph,
                   tres, pushed, reported, lastop>>

\* reset releases the resource on top of the disposal stack and collects its
\* failure
Release ==
    /\ mainpc = "reset" /\ dstack # <<>>
    /\ released' = Append(released, dstack[Len(dstack)].id)
    /\ dstack' = SubSeq(dstack, 1, Len(dstack) - 1)
    /\ pending' = IF dstack[Len(dstack)].fails
                    THEN Append(pending, dstack[Len(dstack)].id) ELSE pending
    /\ UNCHANGED <<injs, current, built, mainpc, nops, gathered, gcur, tph,
                   tres, pushed, reported, lastop>>

\* reset ends: the injector is DISPOSED, the scope inactive, the failures
\* collected are reported
ResetEnd ==
    /\ mainpc = "reset" /\ dstack = <<>>
    /\ injs' = [injs EXCEPT ![lastop.inj] = "DISPOSED"]
    /\ current' = 0
    /\ built' = 0
    /\ reported' = pending
    /\ lastop' = [lastop EXCEPT !.raised = IF pending # <<>> THEN "DisposalError" ELSE ""]
    /\ mainpc' = "main"
    /\ UNCHANGED <<nops, gathered, gcur, tph, tres, dstack, pushed, released, pending>>

\* tasks = [func(i) for i in range(N)]; await asyncio.gather(*tasks)
Gather ==
    /\ mainpc = "main" /\ ~gathered
    /\ mainpc' = "gather"
    /\ gathered' = TRUE
    /\ gcur' = current
    /\ tph' = [t \in Tasks |-> "started"]
    /\ UNCHANGED <<injs, current, built, nops, tres, dstack, pushed, released,
                   pending, reported, lastop>>

\* func(n) evaluates sub.is_active
TaskIsActive(t) ==
    /\ mainpc = "gather" /\ tph[t] = "started"
    /\ tph' = [tph EXCEPT ![t] = "checked"]
    /\ tres' = [tres EXCEPT ![t].active = IsActive]
    /\ UNCHANGED <<injs, current, built, mainpc, nops, gathered, gcur, dstack,
                   pushed, released, pending, reported, lastop>>

\* sub.injector() that constructs an injector whatever the scope's state
ScopeInjectorNew(t) ==
    /\ Len(injs) < MaxInjectors
    /\ injs' = NewInjector
    /\ built' = built + 1
    /\ tres' = [tres EXCEPT ![t].val = Len(injs) + 1]
    /\ UNCHANGED current

\* sub.injector() while the scope is inactive, which sets the injector up
ScopeInjectorSetsUp(t) ==
    IF IsActive
    THEN /\ tres' = [tres EXCEPT ![t].val = current]
         /\ UNCHANGED <<injs, built, current>>
    ELSE /\ Len(injs) < MaxInjectors
         /\ injs' = Append(injs, "ACTIVE")
         /\ built' = 1
         /\ current' = Len(injs) + 1
         /\ tres' = [tres EXCEPT ![t].val = Len(injs) + 1]

\* sub.injector(): the current injector of an active scope, a new injector
\* otherwise
ScopeInjector(t) ==
    IF IsActive
    THEN /\ tres' = [tres EXCEPT ![t].val = current]
         /\ UNCHANGED <<injs, built, current>>
    ELSE /\ Len(injs) < MaxInjectors
         /\ injs' = NewInjector
         /\ built' = built + 1
         /\ tres' = [tres EXCEPT ![t].val = Len(injs) + 1]
         /\ UNCHANGED current

\* func(n) evaluates sub.injector() and stores res[n]
TaskInjector(t) ==
    /\ mainpc = "gather" /\ tph[t] = "checked"
    /\ tph' = [tph EXCEPT ![t] = "done"]
    /\ ScopeInjector(t)
    /\ UNCHANGED <<mainpc, nops, gathered, gcur, dstack, pushed,
                   released, pending, reported, lastop>>

\* the main coroutine evaluates sub.injector()
MainInjector ==
    /\ MainOp
    /\ ScopeInjector(Main)
    /\ lastop' = [op |-> "injector", inj |-> 0,
                  before |-> IF IsActive THEN "ACTIVE" ELSE "", raised |-> ""]
    /\ UNCHANGED <<mainpc, gathered, gcur, tph, dstack, pushed, released,
                   pending, reported>>

\* asyncio.gather returns
Join ==
    /\ mainpc = "gather"
    /\ \A t \in Tasks : tph[t] = "done"
    /\ mainpc' = "main"
    /\ UNCHANGED <<injs, current, built, nops, gathered, gcur, tph, tres,
                   dstack, pushed, released, pending, reported, lastop>>

(***************************************************************************)
(* laza.di.injectors.Injector: bootstrap, set_parent and create_context.    *)
(* 1 and 2 are the other injectors, which the injector under test may get  *)
(* as its parent; a parent has the one autoload key "kp".                   *)
(***************************************************************************)
MaxContexts == 2
MaxSetParent == 2

AutoKeys == {"k1", "k2", "k3"}
\* the key of Factory(ExitStack).singleton().autoload().final()
ExitStackKey == "kx"
NoParent == 0
OtherInjectors == {1, 2}

\* the sequences over S without repetition
Arrangements(S) ==
    UNION {{q \in [1..n -> S] : \A i, j \in 1..n : i # j => q[i] # q[j]} :
              n \in 0..Cardinality(S)}
\* the orders in which iterating the set S may yield its elements
IterationOrders(S) == {q \in Arrangements(S) : Len(q) = Cardinality(S)}

NoSetParent == [arg |-> 0, before |-> 0, booted |-> FALSE, raised |-> ""]

LazaNew ==
    /\ zreg = <<>>
    /\ zshadowed = {}
    /\ zparent = NoParent
    /\ zbooted = FALSE
    /\ zautoloads = {}
    /\ zorder = <<>>
    /\ zcurrent = NoParent
    /\ zinvoked = <<>>
    /\ zctxs = 0
    /\ zcalls = 0
    /\ zlast = NoSetParent

\* the keys registered as autoload, the default providers' last
Registered == Append(zreg, ExitStackKey)

\* Injector._collect_autoloaded: the registered keys whose resolved provider
\* is an autoload one, as a frozenset
CollectAutoloaded == {a \in SeqToSet(Registered) : a \notin zshadowed}

\* Injector.__boot.settle(): __bootstrap once, then _collect_autoloaded;
\* the frozenset built yields its elements in an order of its own
Settle ==
    IF zbooted THEN UNCHANGED <<zbooted, zautoloads, zorder>>
    ELSE /\ zbooted' = TRUE
         /\ zautoloads' = CollectAutoloaded
         /\ zorder' \in IterationOrders(CollectAutoloaded)

\* Injector.bootstrap()
Bootstrap ==
    /\ ~zbooted
    /\ Settle
    /\ UNCHANGED <<zreg, zshadowed, zparent, zcurrent, zinvoked, zctxs, zcalls, zlast>>

\* set_parent that sets the parent of a bootstrapped injector
SetParentUnguarded(p) ==
    /\ zcalls < MaxSetParent
    /\ zcalls' = zcalls + 1
    /\ zlast' = [arg |-> p, before |-> zparent, booted |-> zbooted, raised |-> ""]
    /\ zparent' = p
    /\ UNCHANGED <<zreg, zshadowed, zbooted, zautoloads, zorder, zcurrent, zinvoked, zctxs>>

\* set_parent that replaces a parent already set
SetParentOverwrite(p) ==
    /\ zcalls < MaxSetParent
    /\ zcalls' = zcalls + 1
    /\ zlast' = [arg |-> p, before |-> zparent, booted |-> zbooted,
                 raised |-> IF zparent = NoParent /\ zbooted THEN "TypeError" ELSE ""]
    /\ zparent' = IF zparent = NoParent /\ zbooted THEN zparent ELSE p
    /\ UNCHANGED <<zreg, zshadowed, zbooted, zautoloads, zorder, zcurrent, zinvoked, zctxs>>

\* Injector.set_parent(parent)
SetParent(p) ==
    /\ zcalls < MaxSetParent
    /\ zcalls' = zcalls + 1
    /\ zlast' = [arg |-> p, before |-> zparent, booted |-> zbooted,
                 raised |-> IF zparent # NoParent
                              THEN IF zparent = p THEN "" ELSE "TypeError"
                              ELSE IF zbooted THEN "TypeError" ELSE ""]
    /\ zparent' = IF zparent = NoParent /\ ~zbooted THEN p ELSE zparent
    /\ UNCHANGED <<zreg, zshadowed, zbooted, zautoloads, zorder, zcurrent, zinvoked, zctxs>>

\* the keys the parent's create_context invokes, when the context passed is
\* not the parent's
ParentInvoked(ctx) == IF zparent # NoParent /\ ctx # zparent THEN <<"kp">> ELSE <<>>

\* Injector.create_context(current): the parent's context first, the boot
\* promise settled, then ctx[d]() of every d that iterating __autoloads yields
CreateContext(ctx) ==
    /\ zctxs < MaxContexts
    /\ zctxs' = zctxs + 1
    /\ Settle
    /\ zinvoked' = ParentInvoked(ctx) \o zorder'
    /\ zcurrent' = ctx
    /\ UNCHANGED <<zreg, zshadowed, zparent, zcalls, zlast>>

(***************************************************************************)
(* Scope._resolve_dependency run by one thread for one key "K", as a        *)
(* function of the wiring: the containers' parents, the PRO of the parent   *)
(* scope's container and the providers registered per container and        *)
(* locality.  The child scope sC is built on cA, whose PRO is cA, cB; the   *)
(* parent scope sP on cP.                                                   *)
(***************************************************************************)
MaxResolves == 2

\* a registered provider: prio 0 is final, 1 neither, 2 default; a provider
\* of kind "null" composes to None
Reg(n, kind, prio) == [name |-> n, kind |-> kind, prio |-> prio]

\* what one (container, locality) may have registered for the key, in
\* registration order
GlobalRegs == {<<>>, <<Reg("n", "factory", 1)>>, <<Reg("u", "null", 1)>>,
               <<Reg("d", "factory", 2), Reg("n", "factory", 1),
                 Reg("m", "factory", 1), Reg("f", "factory", 0)>>}
LocalRegs == {<<>>, <<Reg("l", "factory", 1)>>}

Cells == Containers \X Locs

\* ns.get_all(key): the candidates, final before non-default before default,
\* each class in registration order
GetAllUnordered(regs) == regs

GetAll(regs) ==
    SelectSeq(regs, LAMBDA p : p.prio = 0) \o SelectSeq(regs, LAMBDA p : p.prio = 1)
        \o SelectSeq(regs, LAMBDA p : p.prio = 2)

\* self.container.get_container(container) under the wiring
GetContainerW(s, container) ==
    LET pro == IF s = "sC" THEN Pro("cA") ELSE wpro IN
    IF container = NoneC THEN ScopeContainer(s)
    ELSE IF container \in SeqToSet(pro) THEN container
    ELSE NoneC

Names(q) == [i \in 1..Len(q) |-> q[i].name]

Event(ev, s, c, loc, only, first, rest) ==
    [ev |-> ev, scope |-> s, cont |-> c, loc |-> loc, only |-> only,
     first |-> first, rest |-> rest]

\* the state a call threads through: the memo, the trace, the objects made
RdState(memo, trace, oid) == [memo |-> memo, trace |-> trace, oid |-> oid]
Traced(st, e) == [st EXCEPT !.trace = Append(@, e)]
Out(d, st) == [dep |-> d, st |-> st]

\* resolved.get(ident) of scope s, None when absent
MemoGet(memo, s, c, loc) ==
    LET hits == {x \in memo : x.scope = s /\ x.cont = c /\ x.loc = loc}
    IN IF hits = {} THEN NoDep ELSE (CHOOSE x \in hits : TRUE).dep

\* resolved[ident] = d
MemoSet(memo, s, c, loc, d) ==
    {x \in memo : ~(x.scope = s /\ x.cont = c /\ x.loc = loc)}
        \cup {[scope |-> s, cont |-> c, loc |-> loc, dep |-> d]}

\* pros[at].compose(self, key, *others): a Factory composes to a new
\* Dependency, a provider of kind "null" to None
ComposeAt(pros, at, s, c, loc, st) ==
    LET p == pros[at]
        others == SubSeq(pros, 1, at - 1) \o SubSeq(pros, at + 1, Len(pros))
        e == Event("compose", s, c, loc, FALSE, p.name, Names(others))
    IN IF p.kind = "factory"
         THEN Out(Dep("K", s, c, st.oid + 1, "Factory"), [Traced(st, e) EXCEPT !.oid = @ + 1])
         ELSE Out(NoDep, Traced(st, e))

ComposeLast(pros, s, c, loc, st) == ComposeAt(pros, Len(pros), s, c, loc, st)

ComposeFirst(pros, s, c, loc, st) == ComposeAt(pros, 1, s, c, loc, st)

\* the retry of a GLOBAL miss in a foreign container, left out
RetryNever(s, container, loc) == FALSE

\* a retry that LOCAL resolutions make too
RetryLocalToo(s, container, loc) == container # ScopeContainer(s)

\* not (container is self.container or loc is LOCAL)
Retry(s, container, loc) == ~(container = ScopeContainer(s) \/ loc = "LOCAL")

\* the stop of a LOCAL resolution whatever the container's parent
LocalStopAlways(container, loc) == loc = "LOCAL"

\* the stop of a LOCAL resolution, left out
LocalStopNever(container, loc) == FALSE

\* not container.parent and loc is LOCAL
LocalStop(container, loc) == wparent[container] = NoneC /\ loc = "LOCAL"

\* the store of the retry's result under the own container's ident
RetryIdentOwn(s, container) == ScopeContainer(s)

\* ident = container, loc: the container the call was made for
RetryIdent(s, container) == container

RECURSIVE ResolveDependency(_, _, _, _, _)
\* Scope._resolve_dependency(key, container, loc, only_self=only) on scope s
ResolveDependency(s, container, loc, only, st0) ==
    IF s = NullScope THEN Out(NoDep, st0)
    ELSE
    LET st == Traced(st0, Event("call", s, container, loc, only, "", <<>>))
        c == GetContainerW(s, container)
        up(cnt, stu) ==
            IF ~only THEN ResolveDependency(ScopeParent(s), cnt, loc, FALSE, stu)
            ELSE Out(NoDep, stu)
    IN IF c = NoneC THEN up(NoneC, st)
       ELSE
       LET hit == MemoGet(st.memo, s, c, loc) IN
       IF hit # NoDep THEN Out(hit, Traced(st, Event("hit", s, c, loc, only, "", <<>>)))
       ELSE
       LET pros == GetAll(wreg[<<c, loc>>])
           pro == IF pros # <<>> THEN ComposeFirst(pros, s, c, loc, st) ELSE Out(NoDep, st)
       IN IF Truthy(pro.dep)
            THEN \* resolved.setdefault(ident, pro)
                 Out(pro.dep, [pro.st EXCEPT !.memo = MemoSet(@, s, c, loc, pro.dep)])
          ELSE
          LET dp == IF Retry(s, c, loc)
                      THEN ResolveDependency(s, NoneC, loc, TRUE, pro.st)
                      ELSE Out(NoDep, pro.st)
          IN IF Truthy(dp.dep)
               THEN Out(dp.dep,
                        [Traced(dp.st, Event("store", s, RetryIdent(s, c), loc, only, "", <<>>))
                            EXCEPT !.memo = MemoSet(@, s, RetryIdent(s, c), loc, dp.dep)])
             ELSE IF LocalStop(c, loc) THEN Out(NoDep, dp.st)
             ELSE up(wparent[c], dp.st)

NoCall27 == [container |-> NoneC, loc |-> "GLOBAL", only |-> TRUE]

ResolveNew ==
    /\ wparent = [c \in Containers |-> NoneC]
    /\ wpro = <<"cP">>
    /\ wreg = [x \in Cells |-> <<>>]
    /\ rcall = NoCall27
    /\ rmemo = {}
    /\ rtrace = <<>>
    /\ rres = NoDep
    /\ rfirst = NoDep
    /\ rcount = 0
    /\ roid = 0

\* the wirings: cB may be a child of cA, cA a child of the parent scope's
\* container, and the parent scope's container may include cA
Wirings ==
    /\ wparent \in {[c \in Containers |-> IF c = "cB" THEN b ELSE IF c = "cA" THEN a ELSE NoneC] :
                        b \in {NoneC, "cA"}, a \in {NoneC, "cP"}}
    /\ wpro \in {<<"cP">>, <<"cP", "cA">>}
    /\ wreg \in {[x \in Cells |-> IF x[2] = "GLOBAL" THEN g[x[1]] ELSE l[x[1]]] :
                        g \in [Containers -> GlobalRegs], l \in [Containers -> LocalRegs]}

\* a caller calls scope._resolve_dependency(K, container, loc, only_self=only)
\* on the child scope
Resolve ==
    /\ rcount < MaxResolves
    /\ LET r == ResolveDependency("sC", rcall.container, rcall.loc, rcall.only,
                                  RdState(rmemo, <<>>, roid))
       IN /\ rres' = r.dep
          /\ rmemo' = r.st.memo
          /\ rtrace' = r.st.trace
          /\ roid' = r.st.oid
          /\ rfirst' = IF rcount = 0 THEN r.dep ELSE rfirst
    /\ rcount' = rcount + 1
    /\ UNCHANGED <<wparent, wpro, wreg, rcall>>

(***************************************************************************)
(* Factory, Singleton and Partial dependencies: the parameters planned for  *)
(* a function, bound to an injector, and the bound callable invoked.        *)
(***************************************************************************)
MaxInvokes == 2

\* the names of the parameters a function may have, in order
ParamNames == <<"a", "b", "c">>

\* a parameter is positional-only ("pos") or keyword-only ("kw"); its trait
\* says whether its annotation is an injectable type ("dep"), whether it has
\* a default ("default"), both ("depdefault") or neither ("hole")
Traits == {"dep", "default", "depdefault", "hole"}
HasDefault(p) == p.trait \in {"default", "depdefault"}
Annotated(p) == p.trait \in {"dep", "depdefault"}

Signatures ==
    UNION {{[i \in 1..n |-> [name |-> ParamNames[i], kind |-> k, trait |-> tr[i]]] :
                tr \in {f \in [1..n -> Traits] :
                          k = "pos" =>
                              /\ \A i \in 1..n : f[i] # "hole"
                              /\ \A i, j \in 1..n :
                                    (i < j /\ f[i] \in {"default", "depdefault"})
                                        => f[j] \in {"default", "depdefault"}}} :
           n \in 0..Len(ParamNames), k \in {"pos", "kw"}}

SigNames(sig) == {sig[i].name : i \in 1..Len(sig)}
SigKind(sig) == IF sig = <<>> THEN "pos" ELSE sig[1].kind
ParamOf(sig, n) == sig[CHOOSE i \in 1..Len(sig) : sig[i].name = n]

\* the values a parameter can receive: the one given to the provider, the
\* one injected, its declared default, or one from the call site
Val(src, n) == [src |-> src, of |-> n]
NoVal == Val("", "")

\* a positional entry of BoundParams: a literal value or a dependency
Arg(n, hasValue, v) == [name |-> n, has_value |-> hasValue, value |-> v]

BoundParams(args, kwds, vals) == [args |-> args, kwds |-> kwds, vals |-> vals]
NoParams == BoundParams(<<>>, {}, {})

\* the literal planned for a parameter: the value given, else its default
Literal(n) == IF n \in bgiven THEN Val("given", n) ELSE Val("default", n)
LiteralInjected(n) == Val("inj", n)

\* the planner: a given argument is a literal; else an injectable annotation
\* is a dependency edge; else a default is a literal; else nothing is planned
Plan(sig, given) ==
    LET planned(p) == p.name \in given \/ p.trait # "hole"
        literal(p) == p.name \in given \/ p.trait = "default"
    IN IF SigKind(sig) = "pos"
         THEN BoundParams([i \in 1..Len(sig) |->
                               Arg(sig[i].name, literal(sig[i]),
                                   IF literal(sig[i]) THEN Literal(sig[i].name) ELSE NoVal)],
                          {}, {})
         ELSE BoundParams(<<>>,
                          {n \in SigNames(sig) : planned(ParamOf(sig, n)) /\ ~literal(ParamOf(sig, n))},
                          {n \in SigNames(sig) : literal(ParamOf(sig, n))})

\* bool(params), params._pos_vals and params._pos_deps
ParamsTruthy(params) == params # NoParams
PosVals(params) == Cardinality({i \in 1..Len(params.args) : params.args[i].has_value})
PosDeps(params) == Cardinality({i \in 1..Len(params.args) : ~params.args[i].has_value})

\* Factory.resolve_args: the positional arguments and the parameters whose
\* dependency was looked up in the injector
ResolveArgs(params) ==
    IF params.args # <<>>
      THEN IF PosVals(params) > 0 /\ 0 < PosDeps(params)
             THEN [args |-> params.args,
                   looked |-> {params.args[i].name : i \in {j \in 1..Len(params.args) : ~params.args[j].has_value}}]
           ELSE IF PosDeps(params) > 0
             THEN [args |-> params.args,
                   looked |-> {params.args[i].name : i \in 1..Len(params.args)}]
           ELSE [args |-> params.args, looked |-> {}]
      ELSE [args |-> <<>>, looked |-> {}]

\* Factory.resolve_kwargs
ResolveKwargs(params) == [kwargs |-> params.kwds, looked |-> params.kwds]

\* what bind returns: the function itself (plain) or a closure over the
\* resolved arguments
Closure(plain, args, kwargs, vals) ==
    [plain |-> plain, args |-> args, kwargs |-> kwargs, vals |-> vals]
NoClosure == [plain |-> FALSE, args |-> <<>>, kwargs |-> {}, vals |-> {"-"}]

\* the value of a resolved positional argument when the call unpacks it
ArgValue(a) == IF a.has_value THEN a.value ELSE Val("inj", a.name)

\* a keyword argument as passed
Kw(n, v) == [name |-> n, value |-> v]

\* the arguments of one call of the function
CallVector(pos, kws) == [pos |-> pos, kws |-> kws, err |-> ""]
NoCallVector == [pos |-> <<>>, kws |-> <<>>, err |-> "-"]

SetToSeq(S, mk(_)) ==
    LET RECURSIVE build(_)
        build(T) == IF T = {} THEN <<>>
                    ELSE LET x == CHOOSE y \in T : TRUE IN <<mk(x)>> \o build(T \ {x})
    IN build(S)

\* func(*args, **kwargs), the literal keyword values left out
FactoryCallNoVals(cl) ==
    IF cl.plain THEN CallVector(<<>>, <<>>)
    ELSE CallVector([i \in 1..Len(cl.args) |-> ArgValue(cl.args[i])],
                    SetToSeq(cl.kwargs, LAMBDA n : Kw(n, Val("inj", n))))

\* lambda: func(*args, **kwargs, **vals)
FactoryCall(cl) ==
    IF cl.plain THEN CallVector(<<>>, <<>>)
    ELSE CallVector([i \in 1..Len(cl.args) |-> ArgValue(cl.args[i])],
                    SetToSeq(cl.kwargs, LAMBDA n : Kw(n, Val("inj", n)))
                        \o SetToSeq(cl.vals, LAMBDA n : Kw(n, Literal(n))))

\* make(*a, **kw) without the skip: func(*args, *a, **(vals | kw), **kwargs)
MakeNoSkip(cl, a, kw) ==
    CallVector([i \in 1..Len(cl.args) |-> ArgValue(cl.args[i])] \o a,
               SetToSeq(cl.vals \cup kw,
                        LAMBDA n : Kw(n, IF n \in kw THEN Val("call", n) ELSE Literal(n)))
                   \o SetToSeq(cl.kwargs, LAMBDA n : Kw(n, Val("inj", n))))

\* make(*a, **kw): func(*args, *a, **(vals | kw), **kwargs.skip(kw))
Make(cl, a, kw) ==
    CallVector([i \in 1..Len(cl.args) |-> ArgValue(cl.args[i])] \o a,
               SetToSeq(cl.vals \cup kw,
                        LAMBDA n : Kw(n, IF n \in kw THEN Val("call", n) ELSE Literal(n)))
                   \o SetToSeq(cl.kwargs \ kw, LAMBDA n : Kw(n, Val("inj", n))))

\* a keyword passed twice in one call
Repeated(kws) == \E i, j \in 1..Len(kws) : i # j /\ kws[i].name = kws[j].name

\* the call as Python makes it: a repeated keyword, an unknown or surplus
\* argument or a missing one raises TypeError
Called(sig, cv) ==
    IF Repeated(cv.kws) THEN [cv EXCEPT !.err = "repeated"]
    ELSE IF SigKind(sig) = "pos"
      THEN IF cv.kws # <<>> \/ Len(cv.pos) > Len(sig) THEN [cv EXCEPT !.err = "surplus"]
           ELSE IF \E i \in 1..Len(sig) : i > Len(cv.pos) /\ ~HasDefault(sig[i])
             THEN [cv EXCEPT !.err = "missing"]
           ELSE cv
    ELSE IF cv.pos # <<>> \/ \E i \in 1..Len(cv.kws) : cv.kws[i].name \notin SigNames(sig)
      THEN [cv EXCEPT !.err = "surplus"]
    ELSE IF \E i \in 1..Len(sig) :
                /\ ~HasDefault(sig[i])
                /\ \A j \in 1..Len(cv.kws) : cv.kws[j].name # sig[i].name
      THEN [cv EXCEPT !.err = "missing"]
    ELSE cv

\* the value parameter n of the function had in the call
Received(sig, cv, n) ==
    LET i == CHOOSE j \in 1..Len(sig) : sig[j].name = n IN
    IF SigKind(sig) = "pos"
      THEN IF i <= Len(cv.pos) THEN cv.pos[i] ELSE Val("default", n)
      ELSE IF \E j \in 1..Len(cv.kws) : cv.kws[j].name = n
             THEN cv.kws[CHOOSE j \in 1..Len(cv.kws) : cv.kws[j].name = n].value
             ELSE Val("default", n)

Classes == {"Factory", "Singleton", "Partial"}

BindNew ==
    /\ bsig = <<>>
    /\ bgiven = {}
    /\ bcls = "Factory"
    /\ bparams = NoParams
    /\ bplans = 0
    /\ blookups = [i \in 1..Len(ParamNames) |-> 0]
    /\ bbound = NoClosure
    /\ bvalue = Missing
    /\ binvoked = 0
    /\ bfunc = 0
    /\ blast = NoCallVector

\* what the provider may be given: a prefix of the positional parameters or
\* any of the keyword parameters
Givens(sig) ==
    IF SigKind(sig) = "pos"
      THEN {{sig[i].name : i \in 1..n} : n \in 0..Len(sig)}
      ELSE SUBSET SigNames(sig)

\* the provider composes its Dependency: the parameters are planned
Planned ==
    /\ bplans = 0
    /\ bparams' = Plan(bsig, bgiven)
    /\ bplans' = 1
    /\ UNCHANGED <<bsig, bgiven, bcls, blookups, bbound, bvalue, binvoked, bfunc, blast>>

Looked(names) ==
    [i \in 1..Len(ParamNames) |-> blookups[i] + IF ParamNames[i] \in names THEN 1 ELSE 0]

\* Factory.bind, Singleton.bind (through Singleton.factory) and Partial.bind
\* (through Partial.factory)
Bind ==
    /\ bplans = 1 /\ bbound = NoClosure
    /\ LET ra == ResolveArgs(bparams)
           rk == ResolveKwargs(bparams)
       IN IF bcls # "Partial" /\ ~ParamsTruthy(bparams)
            THEN /\ bbound' = Closure(TRUE, <<>>, {}, {})
                 /\ UNCHANGED blookups
            ELSE /\ bbound' = Closure(FALSE, ra.args, rk.kwargs, bparams.vals)
                 /\ blookups' = Looked(ra.looked \cup rk.looked)
    /\ bvalue' = Missing
    /\ UNCHANGED <<bsig, bgiven, bcls, bparams, bplans, binvoked, bfunc, blast>>

\* an invocation that resolves the dependencies again
InvokeResolving(a, kw) ==
    /\ bbound # NoClosure /\ binvoked < MaxInvokes
    /\ a = <<>> /\ kw = {}
    /\ binvoked' = binvoked + 1
    /\ bfunc' = bfunc + 1
    /\ blast' = Called(bsig, FactoryCall(bbound))
    /\ blookups' = Looked(ResolveArgs(bparams).looked \cup ResolveKwargs(bparams).looked)
    /\ UNCHANGED <<bsig, bgiven, bcls, bparams, bplans, bbound, bvalue>>

\* the bound callable invoked: with call-site arguments a and kw for a
\* Partial, with none otherwise
Invoke(a, kw) ==
    /\ bbound # NoClosure /\ binvoked < MaxInvokes
    /\ bcls # "Partial" => (a = <<>> /\ kw = {})
    /\ binvoked' = binvoked + 1
    /\ IF bcls = "Singleton" /\ bvalue # Missing
         THEN UNCHANGED <<bfunc, blast, bvalue>>
         ELSE /\ bfunc' = bfunc + 1
              /\ blast' = Called(bsig, IF bcls = "Partial" THEN Make(bbound, a, kw)
                                                           ELSE FactoryCall(bbound))
              /\ bvalue' = IF bcls = "Singleton" /\ blast'.err = "" THEN 1 ELSE bvalue
    /\ UNCHANGED <<bsig, bgiven, bcls, bparams, bplans, blookups, bbound>>

\* the call-site arguments of a Partial: positional ones for a positional
\* signature, keywords for a keyword signature
CallPos == {<<>>, <<Val("call", "+")>>}
CallKw(sig) == IF SigKind(sig) = "kw" THEN SUBSET SigNames(sig) ELSE {{}}

(***************************************************************************)
(* The DepMarker and Union providers: a marker Dep(abstract, predicate,     *)
(* default) or a key Union[...] resolved from the injector of a scope, the  *)
(* child sC or its parent sP, each of which provides some of the keys X, Y. *)
(***************************************************************************)
PKeys == {"X", "Y"}

\* Dep.default: Missing, a plain value, or a marker Dep(abstract)
NoDefault == [kind |-> "missing", abstract |-> ""]
ValueDefault == [kind |-> "value", abstract |-> ""]
MarkerDefault(k) == [kind |-> "marker", abstract |-> k]

\* the keys: Dep(abstract, predicate, default) and Union[members]
DepKey(k, pred, default) == [kind |-> "dep", members |-> <<k>>, pred |-> pred, default |-> default]
UnionKey(members) == [kind |-> "union", members |-> members, pred |-> Noop, default |-> NoDefault]

\* Dep.has_default: not self.default is Missing
DepHasDefault(m) == m.default.kind # "missing"

\* a marker that never injects its default
InjectsDefaultNever(m) == FALSE

\* Dep.injects_default: isinstance(self.default, DependencyMarker)
InjectsDefault(m) == m.default.kind = "marker"

\* a scope test that takes every scope for the source's
SameScopeAlways(s, src) == TRUE

\* scope is src.scope
SameScope(s, src) == s = src

\* what a request resolves to: the value scope s provides for key k, the
\* marker's plain default, nothing, or InjectorLookupError
Res(kind, s, k) == [kind |-> kind, from |-> s, key |-> k]
Unresolved == Res("none", "", "")

\* the first scope of the chain from s on whose containers, filtered by the
\* predicate, provide k
RECURSIVE Find(_, _, _, _)
Find(k, pred, s, src) ==
    IF s = NullScope THEN Unresolved
    ELSE IF /\ ProEntries(pred, Pro(ScopeContainer(s)), SameScope(s, src)) # <<>>
            /\ <<s, k>> \in pprov
      THEN Res("value", s, k)
    ELSE Find(k, pred, ScopeParent(s), src)

\* the DepMarker provider: the marker's target under its predicate; failing
\* that the default, itself resolved when it is a marker
ResolveMarker(m, src) ==
    LET found == Find(m.members[1], m.pred, src, src) IN
    IF found # Unresolved THEN found
    ELSE IF InjectsDefault(m)
      THEN LET d == Find(m.default.abstract, Noop, src, src)
           IN IF d # Unresolved THEN d ELSE Res("error", src, m.default.abstract)
    ELSE IF DepHasDefault(m) THEN Res("default", "", m.members[1])
    ELSE Res("error", src, m.members[1])

\* a Union provider that prefers the later members
RECURSIVE ComposeUnionLast(_, _)
ComposeUnionLast(members, src) ==
    IF members = <<>> THEN Unresolved
    ELSE LET found == Find(members[Len(members)], Noop, src, src)
         IN IF found # Unresolved THEN found
            ELSE ComposeUnionLast(SubSeq(members, 1, Len(members) - 1), src)

\* the Union provider: the first member, in order, that resolves; else None
RECURSIVE ComposeUnion(_, _)
ComposeUnion(members, src) ==
    IF members = <<>> THEN Unresolved
    ELSE LET found == Find(members[1], Noop, src, src)
         IN IF found # Unresolved THEN found ELSE ComposeUnion(Tail(members), src)

ProvidersNew ==
    /\ pprov = {}
    /\ preq = UnionKey(<<>>)
    /\ pfrom = "sC"
    /\ pres = Unresolved
    /\ pdone = FALSE

\* the markers and unions requested
Requests ==
    {DepKey(k, pred, d) : k \in PKeys,
                          pred \in {Noop, ScopePredicate(1), ScopePredicate(0)},
                          d \in {NoDefault, ValueDefault} \cup {MarkerDefault(y) : y \in PKeys}}
        \cup {UnionKey(q) : q \in {<<"X">>, <<"X", "Y">>, <<"Y", "X">>}}

\* injector[Dep(...)]
RequestMarker ==
    /\ ~pdone /\ preq.kind = "dep"
    /\ pres' = ResolveMarker(preq, pfrom)
    /\ pdone' = TRUE
    /\ UNCHANGED <<pprov, preq, pfrom>>

\* injector[Union[...]]
RequestUnion ==
    /\ ~pdone /\ preq.kind = "union"
    /\ pres' = ComposeUnion(preq.members, pfrom)
    /\ pdone' = TRUE
    /\ UNCHANGED <<pprov, preq, pfrom>>

\* key k resolves from the injector of scope s: s or an ancestor provides it
RECURSIVE Provides(_, _)
Provides(s, k) == s # NullScope /\ (<<s, k>> \in pprov \/ Provides(ScopeParent(s), k))

(***************************************************************************)
(* ProSlice: its construction through ProSlice(start, stop, step) and       *)
(* through ProPredicate.__new__(ProSlice, start, stop, step), and its       *)
(* pro_entries.                                                             *)
(***************************************************************************)
\* the Python values an argument may be: None, an int, a Container, the
\* class ProSlice, a tuple of n elements, or a ProSlice instance
PyValue(kind, n, c) == [kind |-> kind, n |-> n, c |-> c]
PyNone == PyValue("none", 0, "")
PyInt(n) == PyValue("int", n, "")
PyContainer(c) == PyValue("container", 0, c)
PyClass == PyValue("class", 0, "")
PyTuple(n) == PyValue("tuple", n, "")
PySliceInstance == PyValue("slice", 0, "")

\* the elements of the tuples and the vars of the instance passed as start
TupleItems == <<PyInt(1), PyNone, PyNone>>

Instance(v) == [err |-> "", vars |-> v]
Raises(e) == [err |-> e, vars |-> <<>>]
NoInstance == Raises("-")

\* ProPredicate.__new__(cls, *vars): object.__new__(cls) needs a class
ProPredicateNew(cls, v) ==
    IF cls.kind = "class" THEN Instance(v) ELSE Raises("TypeError")

\* ProSlice.__new__ passing cls on: super().__new__(cls, start, stop, step)
ProSliceNewCls(cls, start, stop, step) ==
    IF ~(start = PyNone /\ stop = PyNone /\ stop = step)
      THEN IF start.kind = "slice" THEN Instance(TupleItems)
           ELSE IF start.kind = "tuple"
             THEN IF start.n # 3 THEN Raises("ValueError")
                  ELSE ProPredicateNew(cls, TupleItems)
           ELSE ProPredicateNew(cls, <<start, stop, step>>)
      ELSE ProPredicateNew(cls, <<start, stop, step>>)

\* ProSlice.__new__(cls, start, stop, step)
ProSliceNew(cls, start, stop, step) ==
    IF ~(start = PyNone /\ stop = PyNone /\ stop = step)
      THEN IF start.kind = "slice" THEN Instance(TupleItems)
           ELSE IF start.kind = "tuple"
             THEN \* start, stop, step = start + _3_nones[:len(start) - 3]
                  IF start.n # 3 THEN Raises("ValueError")
                  ELSE ProPredicateNew(TupleItems[1], <<TupleItems[2], TupleItems[3]>>)
           ELSE ProPredicateNew(start, <<stop, step>>)
      ELSE ProPredicateNew(start, <<stop, step>>)

Entries(e) == [err |-> "", entries |-> e]
EntriesRaise(e) == [err |-> e, entries |-> <<>>]
NoEntries == EntriesRaise("-")

\* it.index(c), counted from 0
IndexOf(it, c) == (CHOOSE i \in 1..Len(it) : it[i] = c) - 1

\* ProSlice.pro_entries(it, scope, src)
ProSliceEntries(v, it) ==
    IF Len(v) # 3 THEN EntriesRaise("ValueError")
    ELSE LET start == v[1]
             stop == v[2]
             step == v[3]
             lost(x) == x.kind = "container" /\ x.c \notin SeqToSet(it)
             index(x) == IF x.kind = "container" THEN IndexOf(it, x.c)
                         ELSE IF x.kind = "none" THEN NoneInt ELSE x.n
         IN IF lost(start) \/ lost(stop) THEN EntriesRaise("ValueError")
            ELSE IF \/ start.kind \notin {"none", "int", "container"}
                    \/ stop.kind \notin {"none", "int", "container"}
                    \/ step.kind \notin {"none", "int"}
              THEN EntriesRaise("TypeError")
            ELSE IF step = PyInt(0) THEN EntriesRaise("ValueError")
            ELSE Entries(PySlice(it, index(start), index(stop), index(step)))

SliceNew ==
    /\ qstart = PyNone /\ qstop = PyNone /\ qstep = PyNone
    /\ qit = <<>>
    /\ qvia = ""
    /\ qnew = NoInstance
    /\ qent = NoEntries
    /\ qpc = "init"

\* the arguments a caller may pass
Starts == {PyNone, PyInt(0), PyInt(1), PyInt(-1), PyClass, PySliceInstance}
              \cup {PyContainer(c) : c \in Containers} \cup {PyTuple(n) : n \in 1..3}
Stops == {PyNone, PyInt(1), PyInt(2), PyInt(-1)} \cup {PyContainer(c) : c \in Containers}
Steps == {PyNone, PyInt(1), PyInt(2), PyInt(-1)}

\* ProSlice(start, stop, step)
SliceCall ==
    /\ qpc = "init"
    /\ qnew' = ProSliceNew(PyClass, qstart, qstop, qstep)
    /\ qvia' = "ProSlice"
    /\ qpc' = "new"
    /\ UNCHANGED <<qstart, qstop, qstep, qit, qent>>

\* ProPredicate.__new__(ProSlice, start, stop, step)
PredicateNewCall ==
    /\ qpc = "init"
    /\ qnew' = ProPredicateNew(PyClass, <<qstart, qstop, qstep>>)
    /\ qvia' = "ProPredicate.__new__"
    /\ qpc' = "new"
    /\ UNCHANGED <<qstart, qstop, qstep, qit, qent>>

\* instance.pro_entries(it, scope, src)
EntriesCall ==
    /\ qpc = "new" /\ qnew.err = ""
    /\ qent' = ProSliceEntries(qnew.vars, qit)
    /\ qpc' = "entries"
    /\ UNCHANGED <<qstart, qstop, qstep, qit, qvia, qnew>>

(***************************************************************************)
(* Scope.injector, src/xdi/scopes.py:121-130.  Three scopes form a chain,   *)
(* "leaf" under "mid" under "root" under the NullScope.  An injector is a   *)
(* record of its scope and its parent injector; the injector class is not   *)
(* part of the sources at hand, so truthiness and `scope in injector` are   *)
(* taken from the specification: the null injector is falsy and contains    *)
(* nothing, an injector contains its own scope and what its parent          *)
(* contains.                                                                *)
(***************************************************************************)
MaxHeap == 4

ChainScopes == {"root", "mid", "leaf"}

\* Scope.parent
ParentScope(s) ==
    CASE s = "leaf" -> "mid"
      [] s = "mid"  -> "root"
      [] OTHER      -> NullScope

\* NullInjectorContext()
NullInjectorContext == 0

RECURSIVE AncestorScopes(_)
AncestorScopes(s) ==
    IF ParentScope(s) = NullScope THEN {}
    ELSE {ParentScope(s)} \cup AncestorScopes(ParentScope(s))

\* parent and scope in parent
RECURSIVE InjectorContains(_, _, _)
InjectorContains(h, i, s) ==
    /\ i # NullInjectorContext
    /\ \/ h[i].scope = s
       \/ InjectorContains(h, h[i].parent, s)

\* self._injector_class(parent, self)
CreateInjector(s, p, h) ==
    [heap |-> Append(h, [scope |-> s, parent |-> p]), inj |-> Len(h) + 1,
     raised |-> FALSE]

InjectorRaised(h) == [heap |-> h, inj |-> NullInjectorContext, raised |-> TRUE]

\* Scope.injector that makes an injector whatever the parent contains
RECURSIVE ScopeInjectorNoGuard(_, _, _)
ScopeInjectorNoGuard(s, p, h) ==
    IF ParentScope(s) # NullScope /\ ~InjectorContains(h, p, ParentScope(s))
    THEN LET r == ScopeInjectorNoGuard(ParentScope(s), p, h)
         IN  IF r.raised THEN r ELSE CreateInjector(s, r.inj, r.heap)
    ELSE CreateInjector(s, p, h)

\* Scope.injector(parent)
RECURSIVE InjectorFor(_, _, _)
InjectorFor(s, p, h) ==
    IF ParentScope(s) # NullScope /\ ~InjectorContains(h, p, ParentScope(s))
    THEN LET r == InjectorFor(ParentScope(s), p, h)
         IN  IF r.raised THEN r ELSE CreateInjector(s, r.inj, r.heap)
    ELSE IF InjectorContains(h, p, s)
         THEN InjectorRaised(h)
         ELSE CreateInjector(s, p, h)

NoInjectorCall == [op |-> "", scope |-> NullScope, given |-> NullInjectorContext,
                   inj |-> NullInjectorContext, raised |-> FALSE, before |-> 0]

InjectorsNew == xheap = <<>> /\ xlast = NoInjectorCall

\* scope.create_injector(parent)
CreateInjectorCall ==
    \E s \in ChainScopes, p \in 0..Len(xheap) :
        /\ Len(xheap) < MaxHeap
        /\ xheap' = CreateInjector(s, p, xheap).heap
        /\ xlast' = [op |-> "create_injector", scope |-> s, given |-> p,
                     inj |-> Len(xheap) + 1, raised |-> FALSE,
                     before |-> Len(xheap)]

\* scope.injector(parent)
InjectorCall ==
    \E s \in ChainScopes, p \in 0..Len(xheap) :
        LET r == InjectorFor(s, p, xheap)
        IN  /\ Len(r.heap) <= MaxHeap
            /\ xheap' = r.heap
            /\ xlast' = [op |-> "injector", scope |-> s, given |-> p,
                         inj |-> r.inj, raised |-> r.raised,
                         before |-> Len(xheap)]

(***************************************************************************)
(* djx.di.scope, src/djx/di/di.py:31-60.  One execution context enters and  *)
(* leaves scope() blocks, nested as `with` nests them; a block ends         *)
(* normally or with an exception thrown into the generator at its yield.    *)
(* The scope and injector classes of djx are not part of the sources at     *)
(* hand: Scope[name] is the scope named, scope().create(cur) a new injector *)
(* of that scope whose parent is cur, and an injector contains its own      *)
(* scope and what its parent contains.                                      *)
(***************************************************************************)
MaxEnters == 4

\* name: None (falsy), or the name of a scope
NoName == ""
ScopeMain == "main"
ScopeNames == {ScopeMain, "request"}
NoScope == "none"

\* __root_inj = RootInjector(); __inj_ctxvar.set(__root_inj)
RootInj == 1
NoToken == 0

\* scope in cur
RECURSIVE ScopeInCur(_, _, _)
ScopeInCur(h, i, s) ==
    /\ i # 0
    /\ \/ h[i].scope = s
       \/ ScopeInCur(h, h[i].parent, s)

\* Scope[name] if name else Scope[Scope.MAIN] if cur is __root_inj else None
RequestedScope(name, i) ==
    IF name # NoName THEN name
    ELSE IF i = RootInj THEN ScopeMain ELSE NoScope

\* the branch taken: the current injector is yielded as it is
YieldsCurrent(h, i, s) == s = NoScope \/ ScopeInCur(h, i, s)

AmbientNew ==
    /\ aheap = <<[scope |-> "root", parent |-> 0]>>
    /\ actx = RootInj
    /\ aframes = <<>>
    /\ alast = [op |-> "", name |-> NoName, entry |-> RootInj, yielded |-> RootInj,
                reset |-> NoToken, made |-> 0, how |-> ""]
    /\ aenters = 0

\* with scope(name): up to the yield
EnterScope(name) ==
    /\ aenters < MaxEnters
    /\ aenters' = aenters + 1
    /\ LET entry == actx
           s     == RequestedScope(name, entry)
       IN  IF YieldsCurrent(aheap, entry, s)
           THEN /\ UNCHANGED <<aheap, actx>>
                /\ aframes' = Append(aframes, [entry |-> entry, yielded |-> entry,
                                               reset |-> NoToken])
                /\ alast' = [op |-> "enter", name |-> name, entry |-> entry,
                             yielded |-> entry, reset |-> NoToken, made |-> 0,
                             how |-> ""]
           ELSE LET new == Len(aheap) + 1
                IN  /\ aheap' = Append(aheap, [scope |-> s, parent |-> entry])
                    \* reset = __inj_ctxvar.set(cur): the token keeps the old value
                    /\ actx' = new
                    /\ aframes' = Append(aframes, [entry |-> entry, yielded |-> new,
                                                   reset |-> actx])
                    /\ alast' = [op |-> "enter", name |-> name, entry |-> entry,
                                 yielded |-> new, reset |-> actx, made |-> 1,
                                 how |-> ""]

\* the end of the block, with the reset made only when the block ends normally
ExitScopeNoFinally(how) ==
    /\ aframes # <<>>
    /\ LET f == aframes[Len(aframes)]
       IN  /\ aframes' = SubSeq(aframes, 1, Len(aframes) - 1)
           /\ actx' = IF f.reset = NoToken \/ how = "raise" THEN actx ELSE f.reset
           /\ alast' = [op |-> "exit", name |-> NoName, entry |-> f.entry,
                        yielded |-> f.yielded, reset |-> f.reset, made |-> 0,
                        how |-> how]
    /\ UNCHANGED <<aheap, aenters>>

\* the end of the block: the generator is resumed or the block's exception is
\* thrown into it at the yield; finally: reset is None or ctxvar.reset(reset)
ExitScope(how) ==
    /\ aframes # <<>>
    /\ LET f == aframes[Len(aframes)]
       IN  /\ aframes' = SubSeq(aframes, 1, Len(aframes) - 1)
           /\ actx' = IF f.reset = NoToken THEN actx ELSE f.reset
           /\ alast' = [op |-> "exit", name |-> NoName, entry |-> f.entry,
                        yielded |-> f.yielded, reset |-> f.reset, made |-> 0,
                        how |-> how]
    /\ UNCHANGED <<aheap, aenters>>

(***************************************************************************)
(* laza Injector.create_context along the parent chain,                     *)
(* src/laza/di/injectors.py:184-195.  Three injectors, each with at most one *)
(* of the lower-numbered ones as its parent; a context is a record of its   *)
(* injector and the context it was made over, 0 being the context of no     *)
(* injector.  Every injector has autoload providers, whose invocation is    *)
(* logged as one "auto" event after the "ctx" event of its context.         *)
(***************************************************************************)
MaxCtxs == 5

ChainInjectors == 1..3
NoContext == 0

\* current.injector
ContextInjector(h, c) == IF c = NoContext THEN NoParent ELSE h[c].injector

\* create_context that makes the injector's own context only
CreateContextAlone(i, c, h, log) ==
    [heap |-> Append(h, [injector |-> i, parent |-> c]),
     ctx  |-> Len(h) + 1,
     log  |-> log \o <<[ev |-> "ctx", inj |-> i], [ev |-> "auto", inj |-> i]>>]

\* Injector.create_context(current)
RECURSIVE CreateContextFor(_, _, _, _)
CreateContextFor(i, c, h, log) ==
    LET up == IF kparent[i] # NoParent /\ ContextInjector(h, c) # kparent[i]
              THEN CreateContextFor(kparent[i], c, h, log)
              ELSE [heap |-> h, ctx |-> c, log |-> log]
    IN  [heap |-> Append(up.heap, [injector |-> i, parent |-> up.ctx]),
         ctx  |-> Len(up.heap) + 1,
         log  |-> up.log \o <<[ev |-> "ctx", inj |-> i], [ev |-> "auto", inj |-> i]>>]

NoContextCall == [inj |-> NoParent, given |-> NoContext, ctx |-> NoContext, before |-> 0]

ContextsNew ==
    /\ kparent = [i \in ChainInjectors |-> NoParent]
    /\ kctxs = <<>>
    /\ klog = <<>>
    /\ klast = NoContextCall

\* injector.create_context(current)
CreateContextCall ==
    \E i \in ChainInjectors, c \in 0..Len(kctxs) :
        LET r == CreateContextFor(i, c, kctxs, <<>>)
        IN  /\ Len(r.heap) <= MaxCtxs
            /\ kctxs' = r.heap
            /\ klog' = r.log
            /\ klast' = [inj |-> i, given |-> c, ctx |-> r.ctx, before |-> Len(kctxs)]
            /\ UNCHANGED kparent

(***************************************************************************)
(* The specifications: each one runs one part of the program and leaves    *)
(* the other parts in their initial state.                                  *)
(***************************************************************************)
InitInterning ==
    /\ SingletonUnused /\ ScopeNew /\ focus = {} /\ MarkersNew /\ IdentityNew /\ LifecycleNew /\ LazaNew /\ ResolveNew /\ BindNew /\ ProvidersNew /\ SliceNew /\ InjectorsNew /\ AmbientNew /\ ContextsNew
    /\ impl \in {"markers", "init"}
    /\ heap = PlainObjs
    /\ last = NoCall

NextInterning ==
    /\ \/ \E a \in Objs : CallPureDep(a)
       \/ \E a \in Objs, pr \in {Noop, AccessLevel(2)}, df \in {Missing, 1} :
             CallDep(a, pr, df)
    /\ UNCHANGED <<svars, scvars, mvars, dvars, lvars, zvars, rvars, bvars, pvars, qvars, xvars, avars, kvars>>

SpecInterning == InitInterning /\ [][NextInterning]_vars

InitIdentity ==
    /\ SingletonUnused /\ ScopeNew /\ focus = {} /\ MarkersNew /\ InterningNew /\ LifecycleNew /\ LazaNew /\ ResolveNew /\ BindNew /\ ProvidersNew /\ SliceNew /\ InjectorsNew /\ AmbientNew /\ ContextsNew
    /\ da \in DependencyRecords
    /\ db \in DependencyRecords
    /\ cmp = NoCmp

NextIdentity ==
    /\ Compare
    /\ UNCHANGED <<svars, scvars, mvars, ivars, lvars, zvars, rvars, bvars, pvars, qvars, xvars, avars, kvars>>

SpecIdentity == InitIdentity /\ [][NextIdentity]_vars

InitLifecycle ==
    /\ SingletonUnused /\ ScopeNew /\ focus = {} /\ MarkersNew /\ InterningNew /\ IdentityNew /\ LazaNew /\ ResolveNew /\ BindNew /\ ProvidersNew /\ SliceNew /\ InjectorsNew /\ AmbientNew /\ ContextsNew
    /\ LifecycleNew

NextLifecycle ==
    /\ \/ ScopeSetup
       \/ MainInjector
       \/ \E i \in Injectors : SetCurrent(i)
       \/ \E i \in Injectors : InjSetup(i)
       \/ \E i \in Injectors : GetItem(i)
       \/ \E i \in Injectors : Parent(i)
       \/ \E i \in Injectors, f \in BOOLEAN : Push(i, f)
       \/ \E i \in Injectors : InjReset(i)
       \/ Release
       \/ ResetEnd
       \/ Gather
       \/ \E t \in Tasks : TaskIsActive(t)
       \/ \E t \in Tasks : TaskInjector(t)
       \/ Join
    /\ UNCHANGED <<svars, scvars, mvars, ivars, dvars, zvars, rvars, bvars, pvars, qvars, xvars, avars, kvars>>

SpecLifecycle == InitLifecycle /\ [][NextLifecycle]_vars

InitLaza ==
    /\ SingletonUnused /\ ScopeNew /\ focus = {} /\ MarkersNew /\ InterningNew /\ IdentityNew /\ LifecycleNew /\ ResolveNew /\ BindNew /\ ProvidersNew /\ SliceNew /\ InjectorsNew /\ AmbientNew /\ ContextsNew
    /\ zreg \in Arrangements(AutoKeys)
    /\ zshadowed \in SUBSET AutoKeys
    /\ zparent \in {NoParent} \cup OtherInjectors
    /\ zcurrent = NoParent
    /\ zbooted = FALSE
    /\ zautoloads = {}
    /\ zorder = <<>>
    /\ zinvoked = <<>>
    /\ zctxs = 0
    /\ zcalls = 0
    /\ zlast = NoSetParent

NextLaza ==
    /\ \/ Bootstrap
       \/ \E p \in {NoParent} \cup OtherInjectors : SetParent(p)
       \/ \E ctx \in {NoParent} \cup OtherInjectors : CreateContext(ctx)
    /\ UNCHANGED <<svars, scvars, mvars, ivars, dvars, lvars, rvars, bvars, pvars, qvars, xvars, avars, kvars>>

SpecLaza == InitLaza /\ [][NextLaza]_vars

InitResolve ==
    /\ Wirings
    /\ rcall \in [container : {NoneC, "cA", "cB", "cP"}, loc : Locs, only : BOOLEAN]
    /\ rmemo = {} /\ rtrace = <<>> /\ rres = NoDep /\ rfirst = NoDep /\ rcount = 0 /\ roid = 0
    /\ SingletonUnused /\ ScopeNew /\ focus = {} /\ MarkersNew /\ InterningNew /\ IdentityNew /\ BindNew /\ ProvidersNew /\ SliceNew /\ InjectorsNew /\ AmbientNew /\ ContextsNew
    /\ LifecycleNew /\ LazaNew

NextResolve ==
    /\ Resolve
    /\ UNCHANGED <<svars, scvars, mvars, ivars, dvars, lvars, zvars, bvars, pvars, qvars, xvars, avars, kvars>>

SpecResolve == InitResolve /\ [][NextResolve]_vars

InitBind ==
    /\ bsig \in Signatures
    /\ bgiven \in Givens(bsig)
    /\ bcls \in Classes
    /\ bparams = NoParams /\ bplans = 0 /\ blookups = [i \in 1..Len(ParamNames) |-> 0]
    /\ bbound = NoClosure /\ bvalue = Missing /\ binvoked = 0 /\ bfunc = 0
    /\ blast = NoCallVector
    /\ SingletonUnused /\ ScopeNew /\ focus = {} /\ MarkersNew /\ InterningNew /\ IdentityNew /\ ProvidersNew /\ SliceNew /\ InjectorsNew /\ AmbientNew /\ ContextsNew
    /\ LifecycleNew /\ LazaNew /\ ResolveNew

NextBind ==
    /\ \/ Planned
       \/ Bind
       \/ \E a \in CallPos, kw \in CallKw(bsig) : Invoke(a, kw)
    /\ UNCHANGED <<svars, scvars, mvars, ivars, dvars, lvars, zvars, rvars, pvars, qvars, xvars, avars, kvars>>

SpecBind == InitBind /\ [][NextBind]_vars

InitProviders ==
    /\ pprov \in SUBSET (Scopes \X PKeys)
    /\ preq \in Requests
    /\ pfrom \in Scopes
    /\ pres = Unresolved /\ pdone = FALSE
    /\ SingletonUnused /\ ScopeNew /\ focus = {} /\ MarkersNew /\ InterningNew /\ IdentityNew /\ SliceNew /\ InjectorsNew /\ AmbientNew /\ ContextsNew
    /\ LifecycleNew /\ LazaNew /\ ResolveNew /\ BindNew

NextProviders ==
    /\ \/ RequestMarker
       \/ RequestUnion
    /\ UNCHANGED <<svars, scvars, mvars, ivars, dvars, lvars, zvars, rvars, bvars, qvars, xvars, avars, kvars>>

SpecProviders == InitProviders /\ [][NextProviders]_vars

InitSlice ==
    /\ qstart \in Starts /\ qstop \in Stops /\ qstep \in Steps
    /\ qit \in ProLists
    /\ qvia = "" /\ qnew = NoInstance /\ qent = NoEntries /\ qpc = "init"
    /\ SingletonUnused /\ ScopeNew /\ focus = {} /\ MarkersNew /\ InterningNew /\ IdentityNew /\ InjectorsNew /\ AmbientNew /\ ContextsNew
    /\ LifecycleNew /\ LazaNew /\ ResolveNew /\ BindNew /\ ProvidersNew

NextSlice ==
    /\ \/ SliceCall
       \/ PredicateNewCall
       \/ EntriesCall
    /\ UNCHANGED <<svars, scvars, mvars, ivars, dvars, lvars, zvars, rvars, bvars, pvars, xvars, avars, kvars>>

SpecSlice == InitSlice /\ [][NextSlice]_vars

InitInjectors ==
    /\ InjectorsNew
    /\ SingletonUnused /\ ScopeNew /\ focus = {} /\ MarkersNew /\ InterningNew /\ IdentityNew /\ AmbientNew /\ ContextsNew
    /\ LifecycleNew /\ LazaNew /\ ResolveNew /\ BindNew /\ ProvidersNew /\ SliceNew

NextInjectors ==
    /\ \/ CreateInjectorCall
       \/ InjectorCall
    /\ UNCHANGED <<svars, scvars, mvars, ivars, dvars, lvars, zvars, rvars, bvars, pvars, qvars, avars, kvars>>

SpecInjectors == InitInjectors /\ [][NextInjectors]_vars

InitAmbient ==
    /\ AmbientNew
    /\ SingletonUnused /\ ScopeNew /\ focus = {} /\ MarkersNew /\ InterningNew /\ IdentityNew /\ ContextsNew
    /\ LifecycleNew /\ LazaNew /\ ResolveNew /\ BindNew /\ ProvidersNew /\ SliceNew /\ InjectorsNew

NextAmbient ==
    /\ \/ \E name \in {NoName} \cup ScopeNames : EnterScope(name)
       \/ \E how \in {"normal", "raise"} : ExitScope(how)
    /\ UNCHANGED <<svars, scvars, mvars, ivars, dvars, lvars, zvars, rvars, bvars, pvars, qvars, xvars, kvars>>

SpecAmbient == InitAmbient /\ [][NextAmbient]_vars

InitContexts ==
    /\ kparent \in {f \in [ChainInjectors -> {NoParent} \cup ChainInjectors] :
                       \A i \in ChainInjectors : f[i] < i}
    /\ kctxs = <<>> /\ klog = <<>> /\ klast = NoContextCall
    /\ SingletonUnused /\ ScopeNew /\ focus = {} /\ MarkersNew /\ InterningNew /\ IdentityNew
    /\ LifecycleNew /\ LazaNew /\ ResolveNew /\ BindNew /\ ProvidersNew /\ SliceNew /\ InjectorsNew /\ AmbientNew

NextContexts ==
    /\ CreateContextCall
    /\ UNCHANGED <<svars, scvars, mvars, ivars, dvars, lvars, zvars, rvars, bvars, pvars, qvars, xvars, avars>>

SpecContexts == InitContexts /\ [][NextContexts]_vars

InitMarkers == SingletonUnused /\ ScopeNew /\ focus = {} /\ MarkersNew /\ InterningNew /\ IdentityNew /\ LifecycleNew /\ LazaNew /\ ResolveNew /\ BindNew /\ ProvidersNew /\ SliceNew /\ InjectorsNew /\ AmbientNew /\ ContextsNew

NextMarkers ==
    /\ \/ \E l \in Leaves : NewLeaf(l)
       \/ OpAnd
       \/ OpOr
       \/ OpSub
       \/ OpInvert
       \/ \E it \in ProLists, same \in BOOLEAN : Apply(it, same)
       \/ \E d \in Markers : MarkerAnd(d)
       \/ MarkerAndInverted
    /\ UNCHANGED <<svars, scvars, ivars, dvars, lvars, zvars, rvars, bvars, pvars, qvars, xvars, avars, kvars>>

SpecMarkers == InitMarkers /\ [][NextMarkers]_vars

InitScope == SingletonUnused /\ ScopeNew /\ focus \in FocusSets /\ MarkersNew /\ InterningNew /\ IdentityNew /\ LifecycleNew /\ LazaNew /\ ResolveNew /\ BindNew /\ ProvidersNew /\ SliceNew /\ InjectorsNew /\ AmbientNew /\ ContextsNew

NextScope ==
    /\ \E t \in Threads :
        \/ \E s \in Scopes, k \in Keys : StartGet(t, s, k)
        \/ \E s \in Scopes, k \in Keys : StartGetDep(t, s, k)
        \/ \E k \in Keys : StartSlice(t, "sC", k)
        \/ \E k \in Keys, cont \in {NoneC, "cB"}, loc \in Locs, only \in BOOLEAN :
              StartResolve(t, "sC", k, cont, loc, only)
        \/ \E k \in Keys, only \in BOOLEAN : StartMarker(t, "sC", k, only)
        \/ GetStart(t)
        \/ GetMissing(t)
        \/ GetDep(t)
        \/ SliceStart(t)
        \/ SliceFirst(t)
        \/ SliceSecond(t)
        \/ RdStart(t)
        \/ RdCompose(t)
        \/ RdComposed(t)
        \/ RdStore(t)
        \/ RdRetried(t)
        \/ RdDelegated(t)
        \/ MarkerStart(t)
        \/ MarkerResolved(t)
    /\ UNCHANGED <<svars, mvars, ivars, dvars, lvars, zvars, rvars, bvars, pvars, qvars, xvars, avars, kvars>>

SpecScope == InitScope /\ [][NextScope]_vars

InitSingleton == SingletonBind /\ ScopeNew /\ focus = {} /\ MarkersNew /\ InterningNew /\ IdentityNew /\ LifecycleNew /\ LazaNew /\ ResolveNew /\ BindNew /\ ProvidersNew /\ SliceNew /\ InjectorsNew /\ AmbientNew /\ ContextsNew

NextSingleton ==
    /\ \E t \in Threads :
        \/ ThunkCall(t)
        \/ ThunkCheck1(t)
        \/ ThunkAcquire(t)
        \/ ThunkCheck2(t)
        \/ ThunkInvoke(t)
        \/ ThunkAssign(t)
        \/ ThunkRelease(t)
        \/ ThunkReturn(t)
    /\ UNCHANGED <<scvars, mvars, ivars, dvars, lvars, zvars, rvars, bvars, pvars, qvars, xvars, avars, kvars>>

SpecSingleton == InitSingleton /\ [][NextSingleton]_vars

\* a completed call's outcome that is a value
IsValue(r) == r.kind = "value"

C3_ValueStable ==
    thread_safe =>
        /\ \A t \in Threads : IsValue(tret[t]) => tseen[t] \subseteq {tret[t].obj}
        /\ valueWrites <= 1

\* a call that began after a value had been returned has returned that value
C3_Witness ==
    /\ thread_safe
    /\ \E t \in Threads : IsValue(tret[t]) /\ tseen[t] = {tret[t].obj}
    /\ valueWrites = 1

(***************************************************************************)
(* C3 as stated: for any bound Singleton, a value once returned is what     *)
(* every later call returns, and the value slot is written at most once.    *)
(***************************************************************************)
C3_Original ==
    /\ \A t \in Threads : IsValue(tret[t]) => tseen[t] \subseteq {tret[t].obj}
    /\ valueWrites <= 1

(***************************************************************************)
(* Claims about Scope, under SpecScope.                                    *)
(***************************************************************************)

C4_Original ==
    \A t \in Threads :
        (/\ done[t].op = "get"
         /\ Registry(ScopeContainer(done[t].scope), "GLOBAL", done[t].key) # <<>>)
        => (/\ Truthy(done[t].res)
            /\ done[t].res.container = ScopeContainer(done[t].scope))

\* C4 (amended): when the provider registered in c under k composes to a
\* Dependency of its own (a Factory), Scope(c)[k] returns a Dependency for k
\* whose container is c; when the winning provider composes to None (a Union
\* with no member provided, an Alias whose target does not resolve in the
\* scope), Scope(c)[k] returns None.
C4_OwnProvider ==
    \A t \in Threads :
        LET o == done[t]
            pros == Registry(ScopeContainer(o.scope), "GLOBAL", o.key)
        IN
        (o.op = "get" /\ pros # <<>>) =>
            IF pros[1].kind = "factory"
              THEN /\ Truthy(o.res)
                   /\ o.res.abstract = o.key
                   /\ o.res.container = ScopeContainer(o.scope)
              ELSE o.res = NoDep

\* Scope(cA)["Kown"] has returned a Dependency whose container is cA
C4_Witness ==
    \E t \in Threads :
        /\ done[t].op = "get" /\ done[t].scope = "sC" /\ done[t].key = "Kown"
        /\ Truthy(done[t].res) /\ done[t].res.container = "cA"

\* C5: any two _resolve_dependency calls on one scope that reached the same
\* (key, container, locality) and returned a Dependency returned the
\* identical object, also when the calls overlapped.
C5_SameRecord ==
    \A x, y \in rdGot :
        (x[1] = y[1] /\ x[2] = y[2] /\ x[3] = y[3] /\ x[4] = y[4]) => x[5] = y[5]

\* two threads resolved the same triple concurrently, each went as far as
\* composing its own record, and both came back with one and the same object
C5_Witness ==
    \E t, u \in Threads :
        /\ t # u
        /\ done[t].op = "resolve" /\ done[u].op = "resolve"
        /\ done[t].scope = done[u].scope /\ done[t].key = done[u].key
        /\ done[t].cont = done[u].cont /\ done[t].loc = done[u].loc
        /\ done[t].comp = 1 /\ done[u].comp = 1
        /\ Truthy(done[t].res) /\ done[t].res = done[u].res
        /\ nextOid = 2

\* C6 (as stated): when only the parent scope's container provides K,
\* child_scope[K] yields the parent's dependency and a second child_scope[K]
\* does not invoke the parent scope's _resolve_dependency.
C6_Original ==
    \A t \in Threads :
        (done[t].op = "get" /\ done[t].scope = "sC" /\ done[t].key = "Kpar")
        => (/\ Truthy(done[t].res)
            /\ done[t].res.scope = "sP"
            /\ (done[t].again => done[t].rdP = 0))

\* C6 (amended): when only the parent scope's container provides K,
\* child_scope[K] returns None and never calls the parent scope's
\* _resolve_dependency; None is memoized, so a later child_scope[K] calls no
\* _resolve_dependency at all.  The parent's dependency is what
\* child_scope[K:] and child_scope._resolve_dependency(K, only_self=False)
\* return, and each such call invokes the parent scope's _resolve_dependency.
C6_ChildMemoizesNone ==
    \A t \in Threads :
        LET o == done[t] IN
        (o.scope = "sC" /\ o.key = "Kpar") =>
            /\ o.op = "get" =>
                   (o.res = NoDep /\ o.rdP = 0 /\ (o.again => o.rdC = 0 /\ o.comp = 0))
            /\ (o.op = "slice"
                \/ (o.op = "resolve" /\ ~o.only /\ o.cont = NoneC /\ o.loc = "GLOBAL")) =>
                   (Truthy(o.res) /\ o.res.scope = "sP" /\ o.rdP >= 1)

\* a second child_scope["Kpar"] has returned None without any
\* _resolve_dependency call, while the parent's container does provide Kpar
C6_Witness ==
    \E t \in Threads :
        /\ done[t].op = "get" /\ done[t].scope = "sC" /\ done[t].key = "Kpar"
        /\ done[t].again /\ done[t].res = NoDep /\ done[t].rdC = 0
        /\ Registry(ScopeContainer("sP"), "GLOBAL", "Kpar") # <<>>
        /\ Registry(ScopeContainer("sC"), "GLOBAL", "Kpar") = <<>>

\* C7: resolving Dep(K, only_self) from a scope never calls the parent
\* scope's _resolve_dependency and never yields a dependency of the parent
\* scope; when the scope's own container has no provider for K, binding the
\* result raises InjectorLookupError(K, that scope).
C7_OnlySelfBlocksParent ==
    \A t \in Threads :
        LET o == done[t] IN
        (o.op = "marker" /\ o.only) =>
            /\ o.rdP = 0
            /\ o.res.scope # ScopeParent(o.scope)
            /\ Registry(ScopeContainer(o.scope), "GLOBAL", o.key) = <<>> =>
                   /\ ~Truthy(o.res)
                   /\ o.err = [error |-> "InjectorLookupError", abstract |-> o.key,
                               scope |-> o.scope]

\* Dep("Kpar", only_self) was resolved from the child scope, whose parent
\* provides Kpar, and ended in InjectorLookupError("Kpar", child scope)
C7_Witness ==
    \E t \in Threads :
        /\ done[t].op = "marker" /\ done[t].only
        /\ done[t].scope = "sC" /\ done[t].key = "Kpar"
        /\ Registry(ScopeContainer("sP"), "GLOBAL", "Kpar") # <<>>
        /\ done[t].err.error = "InjectorLookupError"
        /\ done[t].err.scope = "sC"

IsSubsequence(a, b) ==
    \E f \in [1..Len(a) -> 1..Len(b)] :
        /\ \A i \in 1..Len(a) : a[i] = b[f[i]]
        /\ \A i, j \in 1..Len(a) : i < j => f[i] < f[j]

HasSlice(p) == \E i \in 1..Len(p) : p[i].k = "slice"

C10_Original ==
    phase = "done" =>
        /\ rerr = ""
        /\ marker.abstract = marker0.abstract
        /\ marker.default = marker0.default

\* C10 (what the code does): evaluating (d & p) & ~p raises TypeError in ~p,
\* whatever d and p are, after d & p was built with the abstract and default
\* of d.
C10_InvertRaises ==
    phase = "done" =>
        /\ rerr = "TypeError"
        /\ marker = DepAnd(marker0, TopPred)
        /\ marker.abstract = marker0.abstract
        /\ marker.default = marker0.default

\* (d & p) & ~p was evaluated for a marker d with a default and a Filter p
C10_Witness ==
    /\ phase = "done"
    /\ TopPred = ProFilter(1)
    /\ marker0.default = 1
    /\ rerr = "TypeError"

\* the PureDep objects alive that wrap the object a
PureDepsOf(a) == {q \in Objs : heap[q].cls = "PureDep" /\ heap[q].abstract = a}

\* the marker objects x and y are equal from both sides and hash alike
Alike(x, y) ==
    /\ PyEq(heap, x, y) /\ PyEq(heap, y, x)
    /\ PyHash(heap, x) = PyHash(heap, y)

\* the latest call was Dep(a) with the default predicate and default
DefaultDepCall ==
    /\ last.op = "Dep"
    /\ PredEq(last.predicate, Noop) /\ last.default = Missing

(***************************************************************************)
(* C11.  Dep(a) with the default predicate and default is interned: for an  *)
(* abstract a that is no marker it returns a PureDep whose abstract is a,   *)
(* equal to a and to every PureDep(a) from both sides and of the same hash; *)
(* PureDep(m) and Dep(m) of a PureDep m return the object m itself.  The    *)
(* equalities and the hashes also agree when a is itself a marker.          *)
(***************************************************************************)
C11_Interned ==
    /\ DefaultDepCall =>
          /\ heap[last.arg].cls = "plain" =>
                /\ heap[last.res].cls = "PureDep"
                /\ heap[last.res].abstract = last.arg
          /\ heap[last.arg].cls = "PureDep" => last.res = last.arg
          /\ Alike(last.res, last.arg)
          /\ \A q \in PureDepsOf(last.arg) : Alike(last.res, q)
    /\ last.op = "PureDep" =>
          /\ heap[last.res].cls = "PureDep"
          /\ heap[last.arg].cls = "PureDep" => last.res = last.arg
          /\ Alike(last.res, last.arg)

\* Dep(m) of a PureDep m returned m, while two distinct PureDep objects of
\* the same plain abstract are alive
C11_Witness ==
    /\ DefaultDepCall
    /\ heap[last.arg].cls = "PureDep"
    /\ last.res = last.arg
    /\ heap[heap[last.arg].abstract].cls = "plain"
    /\ \E q \in PureDepsOf(heap[last.arg].abstract) : q # last.arg

\* the two records agree on abstract, scope and container
SameIdent(d, o) ==
    /\ d.abstract = o.abstract /\ d.scope = o.scope
    /\ DependencyContainer(d.provider, d.scope) = DependencyContainer(o.provider, o.scope)

(***************************************************************************)
(* C12 (as stated).  Two Dependency records are equal, and hash equal, if   *)
(* and only if their abstract, scope and container are equal, whatever      *)
(* their concrete or variant.                                               *)
(***************************************************************************)
C12_Original ==
    cmp.done =>
        /\ cmp.eq <=> SameIdent(da, db)
        /\ cmp.hasheq <=> SameIdent(da, db)

(***************************************************************************)
(* C12 (as amended).  Two Dependency records are equal if and only if they  *)
(* are of the same class and their abstract, scope and container are equal, *)
(* whatever their provider or concrete; != is the negation of ==; their     *)
(* hashes are equal whenever the three fields are equal, whatever the       *)
(* class; records of different scopes are never equal.                      *)
(***************************************************************************)
C12_SameClassIdentity ==
    cmp.done =>
        /\ cmp.eq <=> (da.cls = db.cls /\ SameIdent(da, db))
        /\ cmp.ne <=> ~cmp.eq
        /\ cmp.hasheq <=> SameIdent(da, db)
        /\ da.scope # db.scope => ~cmp.eq

\* two records of one class that differ in provider and concrete compared
\* equal
C12_Witness ==
    /\ cmp.done /\ cmp.eq /\ cmp.hasheq
    /\ da.provider # db.provider
    /\ da.concrete # db.concrete

\* the latest operation completed without raising for its injector's state
Succeeded == lastop.raised \in {"", "DisposalError"}

\* an injector's state only moves FRESH -> ACTIVE -> DISPOSED
LifecycleStep ==
    \A i \in Injectors :
        injs'[i] # injs[i] =>
            <<injs[i], injs'[i]>> \in {<<"FRESH", "ACTIVE">>, <<"ACTIVE", "DISPOSED">>}

\* what an operation is allowed to do, by the state it found the injector in
LifecycleGuards ==
    /\ lastop.op \in {"setup", "set_current"} /\ Succeeded => lastop.before = "FRESH"
    /\ lastop.op = "reset" /\ Succeeded => lastop.before = "ACTIVE"
    /\ lastop.op \in {"getitem", "parent", "push"} /\ Succeeded => lastop.before = "ACTIVE"
    /\ lastop.op \in {"setup", "getitem"} /\ lastop.before = "DISPOSED" =>
          lastop.raised = "StateError"
    /\ lastop.raised \in {"StateError", "InjectorError"} =>
          injs[lastop.inj] = lastop.before

C14_OneInjector ==
    /\ IsActive => built <= 1
    /\ mainpc = "gather" /\ gcur # 0 => current = gcur
    /\ \A t \in Tasks :
          gcur # 0 =>
             /\ tph[t] \in {"checked", "done"} => tres[t].active
             /\ tph[t] = "done" => tres[t].val = gcur
    /\ lastop.op = "injector" /\ lastop.before = "ACTIVE" /\ IsActive =>
          tres[Main].val = current

\* all the tasks returned the injector that sub.setup() had returned, the
\* only one constructed
C14_Witness ==
    /\ gcur # 0 /\ current = gcur /\ built = 1
    /\ Len(injs) = 1
    /\ \A t \in Tasks : tph[t] = "done" /\ tres[t].active /\ tres[t].val = gcur

\* the tasks that have returned from sub.injector()
DoneTasks == {t \in Tasks : tph[t] = "done"}

(***************************************************************************)
(* C15.  When the tasks are gathered while the context scope is not set up, *)
(* the scope is inactive for every task and stays inactive during and after *)
(* their calls, and the tasks that called sub.injector() hold pairwise      *)
(* distinct FRESH injectors, one constructed per call.                      *)
(***************************************************************************)
C15_DistinctInjectors ==
    mainpc = "gather" /\ gcur = 0 =>
        /\ ~IsActive
        /\ \A t \in Tasks : ~tres[t].active
        /\ \A t, u \in DoneTasks : t # u => tres[t].val # tres[u].val
        /\ {tres[t].val : t \in DoneTasks} =
              (Len(injs) - Cardinality(DoneTasks) + 1)..Len(injs)
        /\ \A t \in DoneTasks : injs[tres[t].val] = "FRESH"

\* every task has returned while the scope was never active
C15_Witness ==
    /\ mainpc = "gather" /\ gcur = 0 /\ ~IsActive
    /\ DoneTasks = Tasks
    /\ Cardinality({tres[t].val : t \in Tasks}) = NTasks

\* the step is a call of sub._set_current_injector
SetCurrentStep == nops' # nops /\ lastop'.op = "set_current"

(***************************************************************************)
(* C16.  A call of _set_current_injector while the context scope has a      *)
(* current injector raises InjectorError and leaves the current injector    *)
(* as it was; a call while it has none makes its argument the current one.  *)
(***************************************************************************)
C16_SecondSetRaises ==
    [][SetCurrentStep =>
          IF current # 0
          THEN lastop'.raised = "InjectorError" /\ current' = current /\ injs' = injs
          ELSE lastop'.raised = "" /\ current' = lastop'.inj]_vars

\* the second of two calls raised: the first call's injector is still the
\* current one
C16_Witness ==
    /\ lastop.op = "set_current"
    /\ lastop.raised = "InjectorError"
    /\ current # 0 /\ current # lastop.inj
    /\ injs[lastop.inj] = "FRESH"

\* the latest operation is a reset that has run to its end
ResetDone == lastop.op = "reset" /\ mainpc = "main" /\ Succeeded

(***************************************************************************)
(* C17.  reset() releases the resources pushed on the injector's disposal   *)
(* stack one by one in the reverse of the order of the pushes, and when it  *)
(* ends all of them are released, the injector is DISPOSED and the scope    *)
(* is inactive again, as before the one setup() it undoes.                  *)
(***************************************************************************)
C17_ReleaseLifo ==
    /\ released = SubSeq(Reverse(Ids(pushed)), 1, Len(released))
    /\ ResetDone =>
          /\ released = Reverse(Ids(pushed))
          /\ injs[lastop.inj] = "DISPOSED"
          /\ ~IsActive

\* a reset ended that released several resources, the latest pushed first
C17_Witness ==
    /\ ResetDone
    /\ Len(pushed) >= 2
    /\ released = Reverse(Ids(pushed))
    /\ released[1] = Len(pushed)

\* the resource's release fails
Fails(r) == r.fails

(***************************************************************************)
(* C18.  A release that fails during reset does not stop the reset: when    *)
(* failures are reported the disposal stack is empty and every pushed       *)
(* resource was released, and the failures reported are those of all the    *)
(* resources whose release failed.                                          *)
(***************************************************************************)
C18_ReleaseAll ==
    /\ reported # <<>> \/ lastop.raised = "DisposalError" =>
          /\ dstack = <<>>
          /\ SeqToSet(released) = SeqToSet(Ids(pushed))
    /\ ResetDone =>
          /\ Len(released) = Len(pushed)
          /\ reported = Ids(SelectSeq(Reverse(pushed), Fails))
          /\ lastop.raised = "DisposalError" <=> reported # <<>>

\* a reset ended whose first release failed and which still released the
\* other resources
C18_Witness ==
    /\ ResetDone
    /\ lastop.raised = "DisposalError"
    /\ Len(pushed) >= 2
    /\ pushed[Len(pushed)].fails
    /\ ~pushed[1].fails
    /\ Len(released) = Len(pushed)

\* the provider that the key resolves to is an autoload one
Autoloaded(a) == a \notin zshadowed

(***************************************************************************)
(* C19 (as stated).  create_context binds and invokes every autoload        *)
(* provider, the parent's first, in the order of their registration.        *)
(***************************************************************************)
C19_Original ==
    zctxs > 0 =>
        zinvoked = ParentInvoked(zcurrent) \o SelectSeq(Registered, Autoloaded)

(***************************************************************************)
(* C19 (what the code ensures).  create_context bootstraps the injector     *)
(* and binds and invokes, after the parent's, every autoload provider       *)
(* exactly once, in the order in which the frozenset __autoloads yields     *)
(* them, the same order at every call.                                      *)
(***************************************************************************)
C19_AllInvoked ==
    zctxs > 0 =>
        /\ zbooted
        /\ zautoloads = CollectAutoloaded
        /\ zorder \in IterationOrders(zautoloads)
        /\ zinvoked = ParentInvoked(zcurrent) \o zorder

\* a context was created whose three autoload providers were invoked, the
\* one registered last first
C19_Witness ==
    /\ zctxs > 0
    /\ Len(zorder) >= 3
    /\ zinvoked = ParentInvoked(zcurrent) \o zorder
    /\ zorder[1] = ExitStackKey

\* the latest set_parent call was made on a bootstrapped injector
BootedSetParent == zcalls > 0 /\ zlast.booted

(***************************************************************************)
(* C20 (as stated).  Every call of set_parent on a bootstrapped injector    *)
(* raises, also one that passes the parent the injector already has, and    *)
(* leaves the parent unchanged.                                             *)
(***************************************************************************)
C20_Original ==
    BootedSetParent =>
        /\ zlast.raised = "TypeError"
        /\ zparent = zlast.before

(***************************************************************************)
(* C20 (as amended).  A call of set_parent on a bootstrapped injector       *)
(* raises TypeError unless it passes the parent the injector already has,   *)
(* which returns without raising; in both cases the parent is unchanged.    *)
(***************************************************************************)
C20_SetParentBooted ==
    BootedSetParent =>
        /\ zlast.raised = "TypeError" <=>
              ~(zlast.before # NoParent /\ zlast.arg = zlast.before)
        /\ zlast.raised \in {"", "TypeError"}
        /\ zparent = zlast.before

\* set_parent of another injector raised on a bootstrapped injector that
\* has a parent, and the parent is still the one it had
C20_Witness ==
    /\ BootedSetParent
    /\ zlast.raised = "TypeError"
    /\ zlast.before # NoParent
    /\ zlast.arg \in OtherInjectors /\ zlast.arg # zlast.before
    /\ zparent = zlast.before

C27_Original ==
    (rcount > 0 /\ rcall.loc = "LOCAL" /\ Truthy(rres)) =>
        /\ rres.scope = "sC"
        /\ rres.container = GetContainerW("sC", rcall.container)

\* C27, as the code has it: a LOCAL resolution consults LOCAL registries only
\* and is never retried against the scope's own container; it returns nothing
\* from another scope or container when only_self is true or the container it
\* was made for has no parent
C27_LocalConfined ==
    (rcount > 0 /\ rcall.loc = "LOCAL") =>
        LET c == GetContainerW("sC", rcall.container) IN
        /\ \A i \in 1..Len(rtrace) :
              /\ rtrace[i].ev = "compose" => rtrace[i].loc = "LOCAL"
              /\ rtrace[i].ev = "store" => FALSE
              /\ (rtrace[i].ev = "call" /\ i > 1) => rtrace[i].scope # "sC"
        /\ (Truthy(rres) /\ (rcall.only \/ (c # NoneC /\ wparent[c] = NoneC))) =>
              (rres.scope = "sC" /\ rres.container = c)

\* a LOCAL resolution with only_self false stopped at a container without a
\* parent although the parent scope's container provides the key locally
C27_Witness ==
    /\ rcount > 0 /\ rcall.loc = "LOCAL" /\ ~rcall.only
    /\ rcall.container = NoneC
    /\ wparent["cA"] = NoneC
    /\ wreg[<<"cA", "LOCAL">>] = <<>>
    /\ wreg[<<"cP", "LOCAL">>] # <<>>
    /\ rres = NoDep

(***************************************************************************)
(* C28: whenever the resolver composes for a container with several         *)
(* candidates, the provider composed is the first of the priority order     *)
(* (final, then non-default, then default, each in registration order) and  *)
(* the overrides passed are all the other candidates in that same order.    *)
(***************************************************************************)
C28_FirstByPriority ==
    \A i \in 1..Len(rtrace) :
        rtrace[i].ev = "compose" =>
            LET regs == wreg[<<rtrace[i].cont, rtrace[i].loc>>]
                q == <<rtrace[i].first>> \o rtrace[i].rest
                at(n) == CHOOSE j \in 1..Len(regs) : regs[j].name = n
            IN /\ Len(q) = Len(regs)
               /\ \A j \in 1..Len(regs) : \E m \in 1..Len(q) : q[m] = regs[j].name
               /\ \A m, n \in 1..Len(q) :
                     m < n => \/ regs[at(q[m])].prio < regs[at(q[n])].prio
                              \/ /\ regs[at(q[m])].prio = regs[at(q[n])].prio
                                 /\ at(q[m]) < at(q[n])

\* the final provider, registered last of four, was composed and the other
\* three were passed as overrides; the call returned its Dependency
C28_Witness ==
    /\ rcount = 1
    /\ Len(rtrace) = 2
    /\ rtrace[2].ev = "compose"
    /\ rtrace[2].first = "f"
    /\ rtrace[2].rest = <<"n", "m", "d">>
    /\ Truthy(rres)

(***************************************************************************)
(* C29: a GLOBAL call for a container other than the scope's own, when that *)
(* container yields no dependency, retries exactly once against the scope's *)
(* own container with only_self true; when the retry succeeds its result is *)
(* stored under the cache key of the container the call was made for, and   *)
(* the next call for that container is a cache hit returning the same       *)
(* object.                                                                  *)
(***************************************************************************)
C29_RetryOnceAndCache ==
    LET foreign == wreg[<<"cB", "GLOBAL">>]
        own == wreg[<<"cA", "GLOBAL">>]
        retries == {i \in 2..Len(rtrace) :
                        /\ rtrace[i].ev = "call" /\ rtrace[i].scope = "sC"
                        /\ rtrace[i].cont = NoneC /\ rtrace[i].only}
    IN (/\ rcount > 0 /\ rcall.container = "cB" /\ rcall.loc = "GLOBAL"
        /\ (foreign = <<>> \/ GetAll(foreign)[1].kind = "null"))
       => /\ rcount = 1 => Cardinality(retries) = 1
          /\ (own # <<>> /\ GetAll(own)[1].kind = "factory") =>
                /\ Truthy(rfirst) /\ rfirst.scope = "sC" /\ rfirst.container = "cA"
                /\ MemoGet(rmemo, "sC", "cB", "GLOBAL") = rfirst
                /\ rcount = 2 => /\ rres = rfirst
                                 /\ Len(rtrace) = 2 /\ rtrace[2].ev = "hit"
                                 /\ rtrace[2].cont = "cB"

\* the second call for the foreign container was answered from the cache
\* with the Dependency the retry of the first call had found
C29_Witness ==
    /\ rcount = 2
    /\ rcall.container = "cB" /\ rcall.loc = "GLOBAL" /\ rcall.only
    /\ GetAll(wreg[<<"cB", "GLOBAL">>]) # <<>>
    /\ GetAll(wreg[<<"cB", "GLOBAL">>])[1].kind = "null"
    /\ Truthy(rres) /\ rres = rfirst /\ rres.container = "cA"
    /\ rtrace[2].ev = "hit"

(***************************************************************************)
(* C24: when a Factory's bound callable is invoked, every parameter given   *)
(* explicitly to the provider receives the given value, also when its       *)
(* annotation is injectable; a parameter not given receives the injected    *)
(* value when its annotation is injectable and otherwise its declared       *)
(* default; the call fails only for a parameter that is neither given, nor  *)
(* injectable, nor has a default.                                           *)
(***************************************************************************)
C24_GivenThenInjectedThenDefault ==
    (bcls = "Factory" /\ binvoked > 0) =>
        IF blast.err # ""
          THEN /\ blast.err = "missing"
               /\ \E i \in 1..Len(bsig) : bsig[i].trait = "hole" /\ bsig[i].name \notin bgiven
          ELSE \A i \in 1..Len(bsig) :
                  LET n == bsig[i].name IN
                  Received(bsig, blast, n) =
                      IF n \in bgiven THEN Val("given", n)
                      ELSE IF Annotated(bsig[i]) THEN Val("inj", n)
                      ELSE Val("default", n)

\* a Factory of a function of three parameters, the first two annotated with
\* injectable types and the third with a default, was given the first only:
\* the call had the given value, an injected one and the default
C24_Witness ==
    /\ bcls = "Factory" /\ binvoked > 0 /\ blast.err = ""
    /\ Len(bsig) = 3
    /\ bsig[1].trait = "dep" /\ bsig[2].trait = "dep" /\ bsig[3].trait = "default"
    /\ bgiven = {"a"}
    /\ Received(bsig, blast, "a") = Val("given", "a")
    /\ Received(bsig, blast, "b") = Val("inj", "b")
    /\ Received(bsig, blast, "c") = Val("default", "c")

(***************************************************************************)
(* C25: a call of the closure bound from a Partial, make(a, kw), passes     *)
(* the planned positional arguments followed by the call's, and one keyword *)
(* for every name planned or given at the call: the call's value where the  *)
(* call gives one, else the planned literal or dependency.  No keyword is   *)
(* passed twice.                                                            *)
(***************************************************************************)
C25_CallOverridesPlanned ==
    (bcls = "Partial" /\ binvoked > 0) =>
        LET kws == blast.kws
            np == Len(bparams.args)
        IN /\ ~Repeated(kws) /\ blast.err # "repeated"
           /\ \A n \in bparams.vals \cup bparams.kwds : \E i \in 1..Len(kws) : kws[i].name = n
           /\ \A i \in 1..Len(kws) :
                 \/ kws[i].value = Val("call", kws[i].name)
                 \/ kws[i].name \in bparams.vals /\ kws[i].value = Literal(kws[i].name)
                 \/ kws[i].name \in bparams.kwds /\ kws[i].value = Val("inj", kws[i].name)
           /\ Len(blast.pos) >= np
           /\ \A i \in 1..Len(blast.pos) :
                 IF i <= np THEN blast.pos[i] = ArgValue(bparams.args[i])
                 ELSE blast.pos[i].src = "call"

\* the call gave a keyword planned as a literal and one planned as a
\* dependency: both were passed once, with the call's values
C25_Witness ==
    /\ bcls = "Partial" /\ binvoked > 0
    /\ \E i, j \in 1..Len(blast.kws) :
          /\ blast.kws[i].name \in bparams.vals
          /\ blast.kws[i].value.src = "call"
          /\ blast.kws[j].name \in bparams.kwds
          /\ blast.kws[j].value.src = "call"
    /\ blast.err = ""

(***************************************************************************)
(* C30: Factory.bind and Singleton.bind look every dependency edge up in    *)
(* the injector exactly once, at bind time: no lookup is made before bind,  *)
(* and after it, however often the returned callable has been invoked, each *)
(* edge has been looked up once, each literal never, and the parameters     *)
(* have been planned once.                                                  *)
(***************************************************************************)
C30_ResolvedOnceAtBind ==
    bcls \in {"Factory", "Singleton"} =>
        LET edges == {bparams.args[i].name : i \in {j \in 1..Len(bparams.args) : ~bparams.args[j].has_value}}
                        \cup bparams.kwds
        IN /\ bplans <= 1
           /\ bbound = NoClosure => \A i \in 1..Len(ParamNames) : blookups[i] = 0
           /\ bbound # NoClosure =>
                 \A i \in 1..Len(ParamNames) :
                    blookups[i] = IF ParamNames[i] \in edges THEN 1 ELSE 0

\* a Singleton with a dependency edge and a literal was invoked twice: the
\* function ran once and the edge was looked up once
C30_Witness ==
    /\ bcls = "Singleton" /\ binvoked = 2 /\ bfunc = 1 /\ blast.err = ""
    /\ \E i, j \in 1..Len(bsig) :
          /\ blookups[i] = 1 /\ Received(bsig, blast, bsig[i].name) = Val("inj", bsig[i].name)
          /\ blookups[j] = 0 /\ Received(bsig, blast, bsig[j].name) = Val("given", bsig[j].name)

(***************************************************************************)
(* C21: a Union key resolves to the first of its members, in declaration    *)
(* order, that is provided, with that member's value; when no member is     *)
(* provided the result is None.                                             *)
(***************************************************************************)
C21_FirstProvidedMember ==
    (pdone /\ preq.kind = "union") =>
        LET ms == preq.members
            ok == {i \in 1..Len(ms) : Provides(pfrom, ms[i])}
        IN IF ok = {} THEN pres = Unresolved
           ELSE /\ pres.kind = "value"
                /\ pres.key = ms[CHOOSE i \in ok : \A j \in ok : i <= j]
                /\ <<pres.from, pres.key>> \in pprov

\* Union[X, Y] where only Y is provided resolved to Y's value
C21_Witness ==
    /\ pdone /\ preq = UnionKey(<<"X", "Y">>) /\ pfrom = "sC"
    /\ pprov = {<<"sC", "Y">>}
    /\ pres = Res("value", "sC", "Y")

(***************************************************************************)
(* C22: Dep(X, default=Dep(Y)) resolves to Y's value when X is not          *)
(* provided; Dep(X, ONLY_SELF, default=Dep(Y)) resolves to the value the    *)
(* current injector has for Y when the current scope does not provide X,    *)
(* also when the parent does.                                               *)
(***************************************************************************)
C22_DefaultMarker ==
    (/\ pdone /\ preq.kind = "dep" /\ preq.default.kind = "marker"
     /\ Provides(pfrom, preq.default.abstract)
     /\ \/ preq.pred = Noop /\ ~Provides(pfrom, preq.members[1])
        \/ preq.pred = ScopePredicate(1) /\ <<pfrom, preq.members[1]>> \notin pprov)
    => /\ pres.kind = "value"
       /\ pres.key = preq.default.abstract
       /\ pres = Find(preq.default.abstract, Noop, pfrom, pfrom)

\* Dep(X, ONLY_SELF, default=Dep(Y)) from the child, X provided by the parent
\* only and Y by the child: Y's value of the child
C22_Witness ==
    /\ pdone /\ pfrom = "sC"
    /\ preq = DepKey("X", ScopePredicate(1), MarkerDefault("Y"))
    /\ pprov = {<<"sP", "X">>, <<"sC", "Y">>}
    /\ pres = Res("value", "sC", "Y")

(***************************************************************************)
(* C23: Dep(X, SKIP_SELF) requested from a child injector never resolves to *)
(* the value of the child's own scope (unless the marker names Dep(X)       *)
(* itself as its default); when the parent provides X it resolves to the    *)
(* parent's value.                                                          *)
(***************************************************************************)
C23_SkipSelf ==
    (/\ pdone /\ preq.kind = "dep" /\ preq.pred = ScopePredicate(0) /\ pfrom = "sC"
     /\ preq.default # MarkerDefault(preq.members[1])) =>
        /\ ~(pres.kind = "value" /\ pres.key = preq.members[1] /\ pres.from = "sC")
        /\ <<"sP", preq.members[1]>> \in pprov => pres = Res("value", "sP", preq.members[1])

\* both the child and the parent provide X: the parent's value
C23_Witness ==
    /\ pdone /\ pfrom = "sC"
    /\ preq = DepKey("X", ScopePredicate(0), NoDefault)
    /\ {<<"sC", "X">>, <<"sP", "X">>} \subseteq pprov
    /\ pres = Res("value", "sP", "X")

(***************************************************************************)
(* C31 (as stated): ProSlice(start, stop, step), with start and stop None,  *)
(* an int or a container of the PRO and step None or an int, constructs a   *)
(* predicate, and its pro_entries returns pro[start:stop:step] with the     *)
(* containers replaced by their index.                                      *)
(***************************************************************************)
C31_Original ==
    (/\ qvia = "ProSlice" /\ qpc # "init"
     /\ qstart.kind \in {"none", "int", "container"}
     /\ qstart.kind = "container" => qstart.c \in SeqToSet(qit)
     /\ qstop.kind = "container" => qstop.c \in SeqToSet(qit))
    => /\ qnew.err = ""
       /\ qpc = "entries" =>
             qent = Entries(PySlice(qit,
                        IF qstart.kind = "container" THEN IndexOf(qit, qstart.c)
                        ELSE IF qstart.kind = "none" THEN NoneInt ELSE qstart.n,
                        IF qstop.kind = "container" THEN IndexOf(qit, qstop.c)
                        ELSE IF qstop.kind = "none" THEN NoneInt ELSE qstop.n,
                        IF qstep.kind = "none" THEN NoneInt ELSE qstep.n))

\* C31, as the code has it: ProSlice(start, stop, step) raises for every
\* start that is None, an int, a container or a tuple; given a class as start
\* it makes an instance of two vars whose pro_entries raises; only an
\* existing ProSlice is returned as it is.  An instance made by
\* ProPredicate.__new__(ProSlice, start, stop, step) does return
\* pro[start:stop:step], containers replaced by their index.
C31_ConstructorRaises ==
    /\ (qvia = "ProSlice" /\ qpc # "init") =>
          CASE qstart.kind = "slice" -> qnew = Instance(TupleItems)
            [] qstart.kind = "class" ->
                  /\ qnew = Instance(<<qstop, qstep>>)
                  /\ qpc = "entries" => qent = EntriesRaise("ValueError")
            [] qstart.kind = "tuple" ->
                  qnew = Raises(IF qstart.n = 3 THEN "TypeError" ELSE "ValueError")
            [] OTHER -> qnew = Raises("TypeError")
    /\ (/\ qvia = "ProPredicate.__new__" /\ qpc = "entries"
        /\ qstart.kind \in {"none", "int", "container"}
        /\ qstart.kind = "container" => qstart.c \in SeqToSet(qit)
        /\ qstop.kind = "container" => qstop.c \in SeqToSet(qit))
       => qent = Entries(PySlice(qit,
                        IF qstart.kind = "container" THEN IndexOf(qit, qstart.c)
                        ELSE IF qstart.kind = "none" THEN NoneInt ELSE qstart.n,
                        IF qstop.kind = "container" THEN IndexOf(qit, qstop.c)
                        ELSE IF qstop.kind = "none" THEN NoneInt ELSE qstop.n,
                        IF qstep.kind = "none" THEN NoneInt ELSE qstep.n))

\* ProSlice(1, cB, None) raised TypeError
C31_Witness ==
    /\ qvia = "ProSlice" /\ qpc = "new"
    /\ qstart = PyInt(1) /\ qstop = PyContainer("cB") /\ qstep = PyNone
    /\ qit = <<"cA", "cB", "cP">>
    /\ qnew = Raises("TypeError")

\* no container of the PRO of the scope's container has a provider for k
\* (the scopes have no preset dependencies)
Unprovided(s, k) ==
    \A c \in SeqToSet(Pro(ScopeContainer(s))), l \in Locs : Registry(c, l, k) = <<>>

(***************************************************************************)
(* C32 (as stated): a key that neither the scope's container nor its preset *)
(* dependencies provide is never in the scope, before or after any failed   *)
(* scope[key] or _resolve_dependency(key).                                  *)
(***************************************************************************)
C32_Original ==
    \A s \in Scopes, k \in Keys : Unprovided(s, k) => ~InScope(s, k)

\* C32, as the code has it: once scope[key] or _resolve_dependency(key) has
\* failed for a key nothing provides, the key is in the scope, and it stays;
\* before any such call it is not.
C32_FailedLookupMarksKey ==
    /\ \A t \in Threads :
          LET o == done[t] IN
          (o.op \in {"get", "resolve"} /\ Unprovided(o.scope, o.key) /\ ~Truthy(o.res))
              => InScope(o.scope, o.key)
    /\ \A s \in Scopes, k \in Keys :
          (Unprovided(s, k) /\ InScope(s, k)) => k \in resolvedKeys[s]
    /\ \A s \in Scopes : depsNone[s] \subseteq resolvedKeys[s]

\* scope["Knone"] failed on the child scope and left the key in _resolved and
\* in _dependencies
C32_Witness ==
    \E t \in Threads :
        /\ done[t].op = "get" /\ done[t].scope = "sC" /\ done[t].key = "Knone"
        /\ done[t].res = NoDep
        /\ "Knone" \in resolvedKeys["sC"] /\ "Knone" \in depsNone["sC"]
        /\ InScope("sC", "Knone")

(***************************************************************************)
(* C33: when the Singleton's factory raises, the call ends by raising, it   *)
(* writes no value, and with thread_safe it leaves the lock free: a thread  *)
(* that is not inside the thunk never holds the lock, so the next call is   *)
(* not blocked; it finds the value still Missing and calls the factory      *)
(* again; no call ever returns Missing.                                     *)
(***************************************************************************)
C33_RaiseLeavesNothing ==
    /\ [](\A t \in Threads :
            /\ (thread_safe /\ lock = t) => tpc[t] \in {"check2", "call", "assign", "release"}
            /\ texc[t] => (tpc[t] = "release" /\ ttmp[t] = 0)
            /\ tret[t].kind = "value" => tret[t].obj # Missing)
    /\ [][\A t \in Threads :
            /\ (tpc[t] = "release" /\ texc[t] /\ tpc'[t] # "release") =>
                  /\ tpc'[t] = "idle" /\ tret'[t] = Raised
                  /\ value' = value
                  /\ thread_safe => lock' = 0
            /\ (tpc[t] = "call" /\ tpc'[t] = "release") => (texc'[t] /\ value' = value)
            /\ (tpc[t] = "check1" /\ value = Missing) => tpc'[t] \in {"check1", "acquire"}]_vars

\* with thread_safe, a first call raised and a later call ran the factory
\* again and returned its value
C33_Witness ==
    /\ thread_safe /\ raisedEver /\ funcCalls = 2 /\ valueWrites = 1
    /\ lock = 0
    /\ \E t \in Threads : tret[t] = Returned(value) /\ value = 2 /\ ncalls[t] = 2

\* the calls of _resolve_dependency on scope s that the latest call made,
\* itself included
CallsOn(s) == {i \in 1..Len(rtrace) : rtrace[i].ev = "call" /\ rtrace[i].scope = s}

(***************************************************************************)
(* C34: every call of _resolve_dependency ends, having called               *)
(* _resolve_dependency at most twice on each scope of the chain: once for   *)
(* the call or the delegation that reached the scope and at most once more  *)
(* for the retry against the scope's own container (GLOBAL, only_self       *)
(* true); the parent scope is only reached when only_self is false, and the *)
(* NullScope at the end of the chain yields nothing.                        *)
(***************************************************************************)
C34_BoundedCalls ==
    rcount > 0 =>
        /\ \A s \in Scopes :
              /\ Cardinality(CallsOn(s)) <= 2
              /\ \A i, j \in CallsOn(s) :
                    i < j => /\ rtrace[j].cont = NoneC /\ rtrace[j].only
                             /\ rtrace[j].loc = "GLOBAL"
                             /\ rtrace[i].cont # NoneC
        /\ \A i \in 1..Len(rtrace) : rtrace[i].scope \in Scopes
        /\ CallsOn("sC") # {} /\ rtrace[1].scope = "sC"
        /\ CallsOn("sP") # {} =>
              (~rcall.only /\ ~rtrace[CHOOSE i \in CallsOn("sP") : \A j \in CallsOn("sP") : i <= j].only)
        /\ Truthy(rres) => rres.scope \in Scopes

\* a GLOBAL call for cB with only_self false that found nothing: the call,
\* its retry, the delegation to the parent scope and the parent's retry
C34_Witness ==
    /\ rcount = 1 /\ rres = NoDep
    /\ rcall = [container |-> "cB", loc |-> "GLOBAL", only |-> FALSE]
    /\ Cardinality(CallsOn("sC")) = 2 /\ Cardinality(CallsOn("sP")) = 2

\* the scopes of the injectors on the parent chain of injector i, i first
RECURSIVE ChainOf(_, _)
ChainOf(h, i) ==
    IF i = NullInjectorContext THEN <<>>
    ELSE <<h[i].scope>> \o ChainOf(h, h[i].parent)

RECURSIVE ChainIds(_, _)
ChainIds(h, i) ==
    IF i = NullInjectorContext THEN <<>>
    ELSE <<i>> \o ChainIds(h, h[i].parent)

\* the scope.injector(parent) call that has just returned an injector
InjectorReturned == xlast.op = "injector" /\ ~xlast.raised

(***************************************************************************)
(* C35 as stated: the injector that scope.injector(parent) returns is new   *)
(* and has on its parent chain an injector for every ancestor scope; the    *)
(* ancestors the given parent does not contain get new injectors.           *)
(***************************************************************************)
C35_Original ==
    InjectorReturned =>
        /\ xlast.inj > xlast.before
        /\ xheap[xlast.inj].scope = xlast.scope
        /\ \A a \in AncestorScopes(xlast.scope) :
              InjectorContains(xheap, xheap[xlast.inj].parent, a)

(***************************************************************************)
(* C35 as the code has it: only the parent scope is looked for in the given *)
(* parent injector.  The injector returned is new, its parent chain runs    *)
(* through new injectors for the scope, its parent scope, ... up to the     *)
(* first scope whose own parent scope the given injector contains (or that  *)
(* has none), outermost made first, and then continues with the given       *)
(* injector; ancestors beyond that point are not looked for.  The call      *)
(* raises exactly when the scope's parent scope is absent or contained in   *)
(* the given injector and the scope itself is contained in it.              *)
(***************************************************************************)
C35_ParentScopeOnly ==
    xlast.op = "injector" =>
        LET s    == xlast.scope
            p    == xlast.given
            old  == SubSeq(xheap, 1, xlast.before)
            near == ParentScope(s) = NullScope \/ InjectorContains(old, p, ParentScope(s))
        IN  /\ xlast.raised <=> (near /\ InjectorContains(old, p, s))
            /\ xlast.raised => Len(xheap) = xlast.before
            /\ ~xlast.raised =>
                  LET ids == ChainIds(xheap, xlast.inj)
                      n   == Len(xheap) - xlast.before
                  IN  /\ xlast.inj = Len(xheap) /\ n >= 1
                      /\ xheap[xlast.inj].scope = s
                      /\ \A k \in 1..n :
                            /\ ids[k] = Len(xheap) - k + 1
                            /\ k > 1 => xheap[ids[k]].scope = ParentScope(xheap[ids[k-1]].scope)
                      /\ xheap[ids[n]].parent = p
                      /\ LET top == xheap[ids[n]].scope
                         IN  \/ ParentScope(top) = NullScope
                             \/ InjectorContains(old, p, ParentScope(top))
                      /\ near => n = 1

\* leaf.injector(parent) where parent came from mid.create_injector(): the
\* new injector's chain has no injector for the root scope
C35_Witness ==
    /\ InjectorReturned /\ xlast.scope = "leaf"
    /\ xlast.given # NullInjectorContext
    /\ ChainOf(xheap, xlast.inj) = <<"leaf", "mid">>

(***************************************************************************)
(* C36: once an injector has a parent, from its construction or from        *)
(* set_parent, no step changes the parent; a set_parent call made then      *)
(* returns when it passes that same parent and raises TypeError when it     *)
(* passes anything else.                                                    *)
(***************************************************************************)
C36_ParentWriteOnce ==
    /\ []((zcalls > 0 /\ zlast.before # NoParent) =>
            /\ zparent = zlast.before
            /\ zlast.raised = (IF zlast.arg = zlast.before THEN "" ELSE "TypeError"))
    /\ [][zparent # NoParent => zparent' = zparent]_vars

\* the parent was set by set_parent, and a second set_parent with another
\* injector raised and left it
C36_Witness ==
    /\ zcalls = 2
    /\ zlast.before \in OtherInjectors
    /\ zlast.arg \in OtherInjectors /\ zlast.arg # zlast.before
    /\ zlast.raised = "TypeError"
    /\ zparent = zlast.before

(***************************************************************************)
(* C37: when a scope() block ends, normally or by an exception, the         *)
(* current-injector context variable holds the injector that was current    *)
(* when the block was entered; and a block entered for a scope that the     *)
(* current injector contains, or for no scope, is given the current         *)
(* injector, with no injector made and the context variable left alone.     *)
(***************************************************************************)
C37_RestoresCurrent ==
    /\ [](/\ alast.op = "exit" => actx = alast.entry
          /\ \A k \in 1..Len(aframes) :
                /\ aframes[k].entry = (IF k = 1 THEN RootInj ELSE aframes[k-1].yielded)
                /\ k = Len(aframes) => actx = aframes[k].yielded
          /\ \A i \in 2..Len(aheap) :
                ~ScopeInCur(aheap, aheap[i].parent, aheap[i].scope))
    /\ [][(/\ aenters' = aenters + 1
           /\ YieldsCurrent(aheap, actx, RequestedScope(alast'.name, actx))) =>
              /\ aheap' = aheap
              /\ actx' = actx
              /\ alast'.yielded = actx
              /\ alast'.reset = NoToken]_vars

\* a block that installed a new injector ended with an exception and the
\* root injector is current again
C37_Witness ==
    /\ alast.op = "exit" /\ alast.how = "raise"
    /\ alast.reset # NoToken /\ alast.yielded # alast.entry
    /\ actx = alast.entry

\* the position in the latest call's log of the event ev of injector i, 0 if
\* there is none
LogIndex(ev, i) ==
    IF \E n \in 1..Len(klog) : klog[n] = [ev |-> ev, inj |-> i]
    THEN CHOOSE n \in 1..Len(klog) : klog[n] = [ev |-> ev, inj |-> i]
    ELSE 0

\* the latest create_context was made for an injector whose parent is not the
\* injector of the context passed
ParentNotCurrent ==
    /\ klast.inj # NoParent
    /\ kparent[klast.inj] # NoParent
    /\ ContextInjector(kctxs, klast.given) # kparent[klast.inj]

(***************************************************************************)
(* C38: create_context for an injector whose parent is not the injector of  *)
(* the context passed makes the parent's context first, and so on up the    *)
(* chain: the new context lies over a new context of the parent, whose      *)
(* autoloads were invoked before the injector's own; and every context made *)
(* for an injector with a parent lies over a context of that parent.        *)
(***************************************************************************)
C38_ParentContextFirst ==
    /\ ParentNotCurrent =>
          LET i == klast.inj
              p == kparent[i]
              c == kctxs[klast.ctx].parent
          IN  /\ klast.ctx = Len(kctxs)
              /\ c > klast.before /\ kctxs[c].injector = p
              /\ LogIndex("ctx", p) > 0
              /\ LogIndex("ctx", p) < LogIndex("auto", p)
              /\ LogIndex("auto", p) < LogIndex("ctx", i)
              /\ LogIndex("ctx", i) < LogIndex("auto", i)
    /\ \A n \in 1..Len(kctxs) :
          kparent[kctxs[n].injector] # NoParent =>
              /\ kctxs[n].parent # NoContext
              /\ kctxs[kctxs[n].parent].injector = kparent[kctxs[n].injector]
    /\ \A n \in 1..Len(klog) : \A m \in 1..Len(klog) :
          (/\ klog[n].ev = "auto" /\ klog[m].ev = "auto"
           /\ klog[n].inj = kparent[klog[m].inj]) => n < m

\* create_context of injector 3, whose parent 2 has parent 1, over the
\* context of no injector: three contexts, the outermost first
C38_Witness ==
    /\ ParentNotCurrent
    /\ klast.inj = 3 /\ klast.given = NoContext
    /\ kparent[3] = 2 /\ kparent[2] = 1
    /\ Len(klog) = 6
    /\ klog[2] = [ev |-> "auto", inj |-> 1]
    /\ klog[6] = [ev |-> "auto", inj |-> 3]

====
